---- MODULE Spec2Model ----
(***************************************************************************)
(* Voucher lifecycle of the UniFleet web application: the voucher store    *)
(* (persistence.py, CSVRepo and DBRepo), the redeem and operator status    *)
(* handlers (main.py, mark_redeemed and ops_set_status), booking           *)
(* (main.py, book), the asset generator (generate_voucher.py) and the      *)
(* status audit log (main.py, append_audit).                               *)
(*                                                                         *)
(* Encoding of values.  Money is an integer number of centavos, liters an  *)
(* integer number of hundredths, a discount an integer number of 1/10000   *)
(* peso, a time stamp a value of the clock.  An empty numeric cell is      *)
(* BLANK: pandas reads it from the CSV file as NaN, sqlite returns it as   *)
(* None.  An empty text cell is "": pandas reads it as NaN (shown here as  *)
(* the text "nan", which is what str() makes of it), sqlite as None.       *)
(***************************************************************************)
EXTENDS Integers, Sequences, FiniteSets, TLC

\* ---- bounds of the model ------------------------------------------------
MaxRequests == 2
MaxClock == 2
MaxLimit == 2

\* ---- inputs --------------------------------------------------------------
Threads == {1, 2}
VoucherIds == {"A", "B"}
Amounts == {0, 100000}
BookStations == {"S1", "X"}

BLANK == -1
NoRow == [none |-> TRUE]

\* ---- models.py: the column set -------------------------------------------
TextColumns == {"voucher_id", "station", "status"}

VOUCHER_COLUMNS ==
    {"voucher_id", "station", "requested_amount_php", "liters_requested",
     "transaction_date", "expected_refill_date", "live_price_php_per_liter",
     "discount_per_liter", "liters_dispensed", "status",
     "redemption_timestamp", "created_at", "updated_at",
     "price_snapshot_php_per_liter", "discount_snapshot_php_per_liter",
     "discount_total_php", "total_dispensed_php", "computed_at"}

\* the columns of CREATE TABLE vouchers
SCHEMA_SQL ==
    {"voucher_id", "station", "requested_amount_php", "liters_requested",
     "transaction_date", "expected_refill_date", "live_price_php_per_liter",
     "discount_per_liter", "liters_dispensed", "status",
     "redemption_timestamp"}

\* row = {c: "" for c in VOUCHER_COLUMNS}
BlankRow == [c \in VOUCHER_COLUMNS |-> IF c \in TextColumns THEN "" ELSE BLANK]

\* ---- python value semantics ----------------------------------------------
\* pd.read_csv: an empty text cell becomes NaN
CsvReadRow(r) == [c \in VOUCHER_COLUMNS |->
                    IF c \in TextColumns /\ r[c] = "" THEN "nan" ELSE r[c]]
\* DataFrame.to_csv: NaN (and "") is written as an empty cell
CsvWriteRow(r) == [c \in VOUCHER_COLUMNS |->
                    IF c \in TextColumns /\ r[c] = "nan" THEN "" ELSE r[c]]
\* sqlite3.Row -> dict: NULL becomes None
DbReadRow(r) == [c \in VOUCHER_COLUMNS |->
                    IF c \in TextColumns /\ r[c] = "" THEN "None" ELSE r[c]]

\* _read / _write of the whole file
CsvRead(file) == [i \in DOMAIN file |-> CsvReadRow(file[i])]
CsvWrite(df) == [i \in DOMAIN df |-> CsvWriteRow(df[i])]

\* bool(x) of a number read from the store: NaN is true, None and 0 are false
Truthy(be, x) == IF x = BLANK THEN be = "csv" ELSE x # 0
\* x or y
PyOr(be, x, y) == IF Truthy(be, x) THEN x ELSE y
\* float(x or 0): NaN stays NaN, None becomes 0.0
FloatOr0(be, x) == PyOr(be, x, 0)
\* comparisons of floats: every comparison with NaN is false
Pos(x) == x # BLANK /\ x > 0
NonPos(x) == x # BLANK /\ x <= 0

\* round(a / b, 2) on scaled integers, ties to even
RoundDiv(a, b) ==
    LET q == a \div b
        r == a % b
    IN  IF 2 * r < b THEN q
        ELSE IF 2 * r > b THEN q + 1
        ELSE IF q % 2 = 0 THEN q ELSE q + 1

\* positions of the rows of a table with a voucher id
Matches(rows, vid) == {i \in DOMAIN rows : rows[i].voucher_id = vid}
FirstMatch(rows, vid) ==
    CHOOSE i \in Matches(rows, vid) : \A j \in Matches(rows, vid) : i <= j

\* ---- persistence.py: CSVRepo ---------------------------------------------
\* CSVRepo.get_voucher
CsvGetVoucher(file, vid) ==
    LET df == CsvRead(file)
    IN  IF Matches(df, vid) = {} THEN NoRow ELSE df[FirstMatch(df, vid)]

\* CSVRepo.list_all_vouchers
CsvListAll(file) == CsvRead(file)

\* CSVRepo.set_status
CsvSetStatus(file, vid, new_status, redemption_timestamp, now) ==
    LET df == CsvRead(file)
        upd(r) == IF r.voucher_id # vid THEN r
                  ELSE [r EXCEPT !.status = new_status,
                                 !.redemption_timestamp =
                                     IF new_status = "Redeemed"
                                     THEN redemption_timestamp ELSE BLANK,
                                 !.updated_at = now]
    IN  IF Matches(df, vid) = {}
        THEN [err |-> "KeyError", rows |-> file]
        ELSE [err |-> "", rows |-> CsvWrite([i \in DOMAIN df |-> upd(df[i])])]

\* CSVRepo.append_vouchers, replacing the stored rows that have an appended id
CsvAppendVouchers_Replace(file, rows) ==
    LET keep(s) == SelectSeq(s, LAMBDA r :
                       \A k \in DOMAIN rows : rows[k].voucher_id # r.voucher_id)
    IN  [err |-> "", rows |-> CsvWrite(keep(CsvRead(file)) \o rows)]

\* CSVRepo.append_vouchers
CsvAppendVouchers(file, rows) ==
    [err |-> "", rows |-> CsvWrite(CsvRead(file) \o rows)]

\* "parsed date desc, has_date first, append order desc": whether row i of
\* the frame is listed before row j
CsvBefore(df, i, j) ==
    LET has(k) == df[k].transaction_date # BLANK
    IN  IF has(i) # has(j) THEN has(i)
        ELSE IF has(i) /\ df[i].transaction_date # df[j].transaction_date
        THEN df[i].transaction_date > df[j].transaction_date
        ELSE i > j

\* the rows of a table in the order of a "listed before" relation, cut at limit
\* (before is the set of the pairs <<i, j>> with row i listed before row j)
Listed(rows, before, limit) ==
    LET n == IF limit < Len(rows) THEN limit ELSE Len(rows)
        at(k) == CHOOSE i \in DOMAIN rows :
                    Cardinality({j \in DOMAIN rows : <<j, i>> \in before}) = k - 1
    IN  [k \in 1..n |-> rows[at(k)]]

\* CSVRepo.list_recent_vouchers
CsvListRecent(file, limit) ==
    LET df == CsvRead(file)
    IN  [err |-> "", val |-> Listed(df, {ij \in (DOMAIN df) \X (DOMAIN df) :
                                           CsvBefore(df, ij[1], ij[2])}, limit)]

\* CSVRepo.create_unverified_booking, keeping the caller's status
CsvCreateUnverifiedBooking_KeepStatus(file, data, rd, gen, now) ==
    LET r1 == [data EXCEPT
                 !.expected_refill_date =
                     IF rd # BLANK /\ data.expected_refill_date = BLANK
                     THEN rd ELSE @,
                 !.transaction_date =
                     IF rd # BLANK /\ data.transaction_date = BLANK
                     THEN rd ELSE @]
        vid == IF r1.voucher_id # "" THEN r1.voucher_id ELSE gen
        row == [r1 EXCEPT !.voucher_id = vid,
                          !.status = IF @ = "" THEN "Unverified" ELSE @,
                          !.redemption_timestamp = BLANK,
                          !.created_at = now,
                          !.updated_at = now]
    IN  [err |-> "", rows |-> CsvWrite(CsvRead(file) \o <<row>>), row |-> row]

\* CSVRepo.create_unverified_booking writing a file of the new row only
CsvCreateUnverifiedBooking_Overwrite(file, data, rd, gen, now) ==
    LET r1 == [data EXCEPT
                 !.expected_refill_date =
                     IF rd # BLANK /\ data.expected_refill_date = BLANK
                     THEN rd ELSE @,
                 !.transaction_date =
                     IF rd # BLANK /\ data.transaction_date = BLANK
                     THEN rd ELSE @]
        vid == IF r1.voucher_id # "" THEN r1.voucher_id ELSE gen
        row == [r1 EXCEPT !.voucher_id = vid,
                          !.status = "Unverified",
                          !.redemption_timestamp = BLANK,
                          !.created_at = now,
                          !.updated_at = now]
    IN  [err |-> "", rows |-> CsvWrite(<<row>>), row |-> row]

\* CSVRepo.create_unverified_booking; data is the caller's dict laid out on
\* the columns (BLANK or "" where the caller gave nothing), rd its
\* refuel_datetime, gen the value _gen_voucher_id() returns
CsvCreateUnverifiedBooking(file, data, rd, gen, now) ==
    LET r1 == [data EXCEPT
                 !.expected_refill_date =
                     IF rd # BLANK /\ data.expected_refill_date = BLANK
                     THEN rd ELSE @,
                 !.transaction_date =
                     IF rd # BLANK /\ data.transaction_date = BLANK
                     THEN rd ELSE @]
        vid == IF r1.voucher_id # "" THEN r1.voucher_id ELSE gen
        row == [r1 EXCEPT !.voucher_id = vid,
                          !.status = "Unverified",
                          !.redemption_timestamp = BLANK,
                          !.created_at = now,
                          !.updated_at = now]
    IN  [err |-> "", rows |-> CsvWrite(CsvRead(file) \o <<row>>), row |-> row]

\* ---- persistence.py: DBRepo ----------------------------------------------
\* DBRepo.get_voucher
DbGetVoucher(table, vid) ==
    IF Matches(table, vid) = {} THEN NoRow
    ELSE DbReadRow(table[FirstMatch(table, vid)])

\* DBRepo.list_all_vouchers
DbListAll(table) == [i \in DOMAIN table |-> DbReadRow(table[i])]

\* the ORDER BY of DBRepo.list_recent_vouchers: created_at present first,
\* created_at desc, transaction_date present first, transaction_date desc,
\* rowid desc
DbBefore(table, i, j) ==
    LET hasC(k) == table[k].created_at # BLANK
        hasT(k) == table[k].transaction_date # BLANK
    IN  IF hasC(i) # hasC(j) THEN hasC(i)
        ELSE IF hasC(i) /\ table[i].created_at # table[j].created_at
        THEN table[i].created_at > table[j].created_at
        ELSE IF hasT(i) # hasT(j) THEN hasT(i)
        ELSE IF hasT(i) /\ table[i].transaction_date # table[j].transaction_date
        THEN table[i].transaction_date > table[j].transaction_date
        ELSE i > j

\* DBRepo.list_recent_vouchers: sqlite rejects the statement when the table
\* lacks the created_at column the ORDER BY names
DbListRecent(table, limit) ==
    IF "created_at" \notin SCHEMA_SQL
    THEN [err |-> "OperationalError", val |-> <<>>]
    ELSE [err |-> "",
          val |-> Listed(DbListAll(table),
                         {ij \in (DOMAIN table) \X (DOMAIN table) :
                              DbBefore(table, ij[1], ij[2])}, limit)]

\* DBRepo.set_status: an UPDATE that matches no row is not an error
DbSetStatus(table, vid, new_status, redemption_timestamp) ==
    LET upd(r) == IF r.voucher_id # vid THEN r
                  ELSE [r EXCEPT !.status = new_status,
                                 !.redemption_timestamp =
                                     IF new_status = "Redeemed"
                                     THEN redemption_timestamp ELSE BLANK]
    IN  [err |-> "", rows |-> [i \in DOMAIN table |-> upd(table[i])]]

\* DBRepo.append_vouchers: INSERT OR REPLACE naming every column of
\* VOUCHER_COLUMNS; sqlite rejects the statement when the table lacks one
DbAppendVouchers(table, rows) ==
    LET keep(s) == SelectSeq(s, LAMBDA r :
                       \A k \in DOMAIN rows : rows[k].voucher_id # r.voucher_id)
    IN  IF ~(VOUCHER_COLUMNS \subseteq SCHEMA_SQL)
        THEN [err |-> "OperationalError", rows |-> table]
        ELSE [err |-> "", rows |-> keep(table) \o rows]

\* ---- persistence.py: what the two classes do not define -------------------
\* repo.update_voucher_fields(voucher_id, fields) on a CSVRepo: the class has
\* no attribute of that name, the call raises AttributeError
CsvUpdateVoucherFields(file, vid, fields) ==
    [err |-> "AttributeError", rows |-> file]

\* the same call on a DBRepo
DbUpdateVoucherFields(table, vid, fields) ==
    [err |-> "AttributeError", rows |-> table]

\* ---- the repo selected by PERSISTENCE_BACKEND -----------------------------
RepoGet(be, rows, vid) ==
    IF be = "db" THEN DbGetVoucher(rows, vid) ELSE CsvGetVoucher(rows, vid)

RepoSetStatus(be, rows, vid, new_status, ts, now) ==
    IF be = "db" THEN DbSetStatus(rows, vid, new_status, ts)
    ELSE CsvSetStatus(rows, vid, new_status, ts, now)

RepoAppend(be, rows, add) ==
    IF be = "db" THEN DbAppendVouchers(rows, add)
    ELSE CsvAppendVouchers(rows, add)

\* DBRepo has no create_unverified_booking
RepoCreateUnverifiedBooking(be, rows, data, rd, gen, now) ==
    IF be = "db" THEN [err |-> "AttributeError", rows |-> rows, row |-> NoRow]
    ELSE CsvCreateUnverifiedBooking(rows, data, rd, gen, now)


\* update_voucher_fields(voucher_id, fields) as ops_set_status expects it:
\* called by the handler, defined by neither repo; the handler is modelled
\* against the store contract: a partial update of the known fields of the
\* voucher, NotFound for an unknown id
RepoUpdateVoucherFields(be, rows, vid, fields) ==
    LET known == IF be = "db" THEN SCHEMA_SQL ELSE VOUCHER_COLUMNS
        upd(r) == IF r.voucher_id # vid THEN r
                  ELSE [c \in VOUCHER_COLUMNS |->
                          IF c \in DOMAIN fields /\ c \in known
                          THEN fields[c] ELSE r[c]]
    IN  IF Matches(rows, vid) = {}
        THEN [err |-> "KeyError", rows |-> rows]
        ELSE [err |-> "", rows |-> [i \in DOMAIN rows |-> upd(rows[i])]]

\* ---- price_store.py and discount_store.py (read side) ---------------------
\* str.lower() on the station names of the model
Lower(s) == IF s = "S1" THEN "s1" ELSE s

\* the lookup of ops_set_status: first station whose name matches, else 0.0
LivePriceByName(stns, station_name) ==
    LET hits == {i \in DOMAIN stns : Lower(stns[i].name) = Lower(station_name)}
    IN  IF hits = {} THEN 0
        ELSE stns[CHOOSE i \in hits : \A j \in hits : i <= j].price

\* DiscountStore._normalize_station: strip() on the station names of the model
NormalizeStation(station) == IF station = " S1 " THEN "S1" ELSE station

\* DiscountStore.get: None (BLANK) when the station has no entry
DiscountGet(disc, station) ==
    LET key == NormalizeStation(station)
    IN  IF key \in DOMAIN disc THEN disc[key] ELSE BLANK

\* ---- main.py: the computation of the Approve flow -------------------------
\* price = snapshot, else the live price when the snapshot is <= 0
ResolvePrice(be, row, stns) ==
    LET snap_price == FloatOr0(be, row.price_snapshot_php_per_liter)
    IN  IF NonPos(snap_price) THEN LivePriceByName(stns, row.station)
        ELSE snap_price

\* dpl = snapshot, clamped at 0, else the live discount when it is 0.0
ResolveDiscount(be, row, disc) ==
    LET snap_disc == FloatOr0(be, row.discount_snapshot_php_per_liter)
        dpl == IF snap_disc # BLANK /\ snap_disc < 0 THEN 0 ELSE snap_disc
        live == DiscountGet(disc, row.station)
    IN  IF dpl = 0 /\ live # BLANK THEN live ELSE dpl

\* ComputedFields with the discount total cut off instead of rounded
ComputedFields_Truncated(be, row, stns, disc, now) ==
    LET amount == FloatOr0(be, row.requested_amount_php)
        price == ResolvePrice(be, row, stns)
        dpl == ResolveDiscount(be, row, disc)
        guard == Pos(amount) /\ Pos(price)
        liters_requested == IF guard THEN RoundDiv(amount * 100, price) ELSE 0
        discount_total ==
            IF ~guard THEN 0
            ELSE IF dpl = BLANK THEN BLANK
            ELSE (liters_requested * dpl) \div 10000
        total_dispensed ==
            IF ~guard THEN amount
            ELSE IF discount_total = BLANK THEN BLANK
            ELSE amount + discount_total
        liters_dispensed ==
            IF ~guard THEN 0
            ELSE IF discount_total = BLANK THEN BLANK
            ELSE RoundDiv(liters_requested * price + 100 * discount_total, price)
    IN  [live_price_php_per_liter |-> price,
         discount_per_liter |-> dpl,
         price_snapshot_php_per_liter |->
             PyOr(be, row.price_snapshot_php_per_liter, price),
         discount_snapshot_php_per_liter |->
             PyOr(be, row.discount_snapshot_php_per_liter, dpl),
         liters_requested |-> liters_requested,
         discount_total_php |-> discount_total,
         total_dispensed_php |-> total_dispensed,
         liters_dispensed |-> liters_dispensed,
         computed_at |-> now]

\* ComputedFields storing the price used as the price snapshot
ComputedFields_RefreshSnapshot(be, row, stns, disc, now) ==
    LET amount == FloatOr0(be, row.requested_amount_php)
        price == ResolvePrice(be, row, stns)
        dpl == ResolveDiscount(be, row, disc)
        guard == Pos(amount) /\ Pos(price)
        liters_requested == IF guard THEN RoundDiv(amount * 100, price) ELSE 0
        discount_total ==
            IF ~guard THEN 0
            ELSE IF dpl = BLANK THEN BLANK
            ELSE RoundDiv(liters_requested * dpl, 10000)
        total_dispensed ==
            IF ~guard THEN amount
            ELSE IF discount_total = BLANK THEN BLANK
            ELSE amount + discount_total
        liters_dispensed ==
            IF ~guard THEN 0
            ELSE IF discount_total = BLANK THEN BLANK
            ELSE RoundDiv(liters_requested * price + 100 * discount_total, price)
    IN  [live_price_php_per_liter |-> price,
         discount_per_liter |-> dpl,
         price_snapshot_php_per_liter |->
             LivePriceByName(stns, row.station),
         discount_snapshot_php_per_liter |->
             PyOr(be, row.discount_snapshot_php_per_liter, dpl),
         liters_requested |-> liters_requested,
         discount_total_php |-> discount_total,
         total_dispensed_php |-> total_dispensed,
         liters_dispensed |-> liters_dispensed,
         computed_at |-> now]

\* ComputedFields handing the new status over together with the fields
ComputedFields_WithStatus(be, row, stns, disc, now) ==
    LET amount == FloatOr0(be, row.requested_amount_php)
        price == ResolvePrice(be, row, stns)
        dpl == ResolveDiscount(be, row, disc)
        guard == Pos(amount) /\ Pos(price)
        liters_requested == IF guard THEN RoundDiv(amount * 100, price) ELSE 0
        discount_total ==
            IF ~guard THEN 0
            ELSE IF dpl = BLANK THEN BLANK
            ELSE RoundDiv(liters_requested * dpl, 10000)
        total_dispensed ==
            IF ~guard THEN amount
            ELSE IF discount_total = BLANK THEN BLANK
            ELSE amount + discount_total
        liters_dispensed ==
            IF ~guard THEN 0
            ELSE IF discount_total = BLANK THEN BLANK
            ELSE RoundDiv(liters_requested * price + 100 * discount_total, price)
    IN  [live_price_php_per_liter |-> price,
         discount_per_liter |-> dpl,
         price_snapshot_php_per_liter |->
             PyOr(be, row.price_snapshot_php_per_liter, price),
         discount_snapshot_php_per_liter |->
             PyOr(be, row.discount_snapshot_php_per_liter, dpl),
         liters_requested |-> liters_requested,
         discount_total_php |-> discount_total,
         total_dispensed_php |-> total_dispensed,
         liters_dispensed |-> liters_dispensed,
         computed_at |-> now,
         status |-> "Unredeemed"]

\* the fields ops_set_status hands to update_voucher_fields
ComputedFields(be, row, stns, disc, now) ==
    LET amount == FloatOr0(be, row.requested_amount_php)
        price == ResolvePrice(be, row, stns)
        dpl == ResolveDiscount(be, row, disc)
        guard == Pos(amount) /\ Pos(price)
        liters_requested == IF guard THEN RoundDiv(amount * 100, price) ELSE 0
        discount_total ==
            IF ~guard THEN 0
            ELSE IF dpl = BLANK THEN BLANK
            ELSE RoundDiv(liters_requested * dpl, 10000)
        total_dispensed ==
            IF ~guard THEN amount
            ELSE IF discount_total = BLANK THEN BLANK
            ELSE amount + discount_total
        liters_dispensed ==
            IF ~guard THEN 0
            ELSE IF discount_total = BLANK THEN BLANK
            ELSE RoundDiv(liters_requested * price + 100 * discount_total, price)
    IN  [live_price_php_per_liter |-> price,
         discount_per_liter |-> dpl,
         price_snapshot_php_per_liter |->
             PyOr(be, row.price_snapshot_php_per_liter, price),
         discount_snapshot_php_per_liter |->
             PyOr(be, row.discount_snapshot_php_per_liter, dpl),
         liters_requested |-> liters_requested,
         discount_total_php |-> discount_total,
         total_dispensed_php |-> total_dispensed,
         liters_dispensed |-> liters_dispensed,
         computed_at |-> now]

\* MissingAfterCompute without the test of the price
MissingAfterCompute_NoPriceTest(be, fresh, price) ==
    \/ fresh = NoRow
    \/ ~Truthy(be, fresh.requested_amount_php)

\* "if not fresh or not fresh.get('requested_amount_php') or price <= 0"
MissingAfterCompute(be, fresh, price) ==
    \/ fresh = NoRow
    \/ ~Truthy(be, fresh.requested_amount_php)
    \/ NonPos(price)

\* ---- generate_voucher.py: generate_assets_for_row -------------------------
\* files is the set of artifacts on disk; qr_ok and png_ok tell whether
\* drawing the QR image and the branded image works this time.  A failure of
\* generate_branded_image is printed and swallowed, and it draws nothing
\* when the QR image is missing.
GenerateAssetsForRow(files, vid, qr_ok, png_ok) ==
    LET need_qr == <<vid, "qr">> \notin files
        after_qr == IF need_qr /\ qr_ok THEN files \cup {<<vid, "qr">>} ELSE files
        need_png == <<vid, "png">> \notin files
        after_png == IF need_png /\ png_ok /\ <<vid, "qr">> \in after_qr
                     THEN after_qr \cup {<<vid, "png">>} ELSE after_qr
    IN  IF need_qr /\ ~qr_ok
        THEN [err |-> "RuntimeError", files |-> files]
        ELSE [err |-> "", files |-> after_png]

\* ---- main.py: policy of mark_redeemed -------------------------------------
\* str(row.get('status', '')).strip()
CurrentStatus(row) == row.status

RedeemAllowed(enforce_phases, current_status) ==
    IF enforce_phases THEN current_status = "Unredeemed"
    ELSE current_status \in {"", "Unverified", "Unredeemed"}

\* ---- main.py: append_audit ------------------------------------------------
AuditRow(action, vid, from_status, to_status) ==
    [action |-> action, voucher_id |-> vid,
     from_status |-> from_status, to_status |-> to_status]


\* ---- state ----------------------------------------------------------------
VARIABLES
    backend,      \* PERSISTENCE_BACKEND: "csv" or "db"
    enforce,      \* ENFORCE_PHASES
    opsToken,     \* OPS_TOKEN ("" when unset)
    ioFault,      \* whether the storage may fail with an I/O error
    threaded,     \* whether requests are served concurrently
    clock,        \* the current time
    store,        \* the rows of the repo (master_vouchers.csv or vouchers)
    stations,     \* station_prices.json
    discounts,    \* discount_store.json
    audit,        \* ops_audit_log.csv
    files,        \* static/qr_codes
    req,          \* the request each thread is serving
    nreq,         \* number of requests received
    mirror,       \* a DBRepo table driven side by side with a CSVRepo file
    last,         \* what the two repos returned for the last call
    history,      \* discount_history.csv
    docs,         \* the document each registry file holds
    tmpFiles,     \* the temporary files next to the registry files
    job,          \* the write to a registry file that is under way
    ret,          \* what the last call of a registry gave back
    lock,         \* the thread inside "with self._lock" of the DiscountStore (0: none)
    call          \* the call of a store each thread is in, and how far it got

vars == <<backend, enforce, opsToken, ioFault, threaded, clock, store,
          stations, discounts, audit, files, req, nreq, mirror, last,
          history, docs, tmpFiles, job, ret, lock, call>>

registry == <<history, docs, tmpFiles, job, ret>>

parity == <<mirror, last>>

calls == <<lock, call>>

\* what one call of a repo method gives back: the exception raised, the value
Result(err, val) == [err |-> err, val |-> val]

NoCall == [op |-> "", arg |-> NoRow,
           csv |-> Result("", NoRow), db |-> Result("", NoRow)]

config == <<backend, enforce, opsToken, ioFault, threaded>>

IdleReq == [pc |-> "idle", op |-> "", vid |-> "", target |-> "", prev |-> "",
            row |-> NoRow, price |-> 0, outcome |-> ""]

\* the seeded station registry and a discount set by the admin
InitStations == <<[id |-> "p1", name |-> "S1", price |-> 6000, updated_at |-> 0]>>
InitDiscounts == [n \in {"S1"} |-> 25000]

\* the row the audit file holds for the discount of InitDiscounts
InitHistory == <<[timestamp_iso |-> 0, station |-> "S1",
                  old_discount_per_liter |-> BLANK,
                  new_discount_per_liter |-> 25000]>>

\* both registry files hold a complete JSON object
InitDocs == [prices |-> "object", discounts |-> "object"]

\* a thread that is in no call of a store
IdleCall == [pc |-> "idle", op |-> "", arg |-> NoRow, data |-> <<>>,
             rows |-> <<>>, err |-> "", val |-> NoRow]

NoRet == [op |-> "", arg |-> NoRow, err |-> "", val |-> NoRow]

\* no write of a registry file is under way
NoJob == [pc |-> "idle", file |-> "", doc |-> <<>>, rows |-> <<>>, ret |-> NoRet]

InitCommon ==
    /\ history = InitHistory
    /\ docs = InitDocs
    /\ tmpFiles = {}
    /\ job = NoJob
    /\ ret = NoRet
    /\ lock = 0
    /\ call = [t \in Threads |-> IdleCall]
    /\ backend \in {"csv", "db"}
    /\ enforce \in BOOLEAN
    /\ opsToken = "t"
    /\ clock = 1
    /\ store = <<>>
    /\ stations = InitStations
    /\ discounts = InitDiscounts
    /\ audit = <<>>
    /\ files = {}
    /\ req = [t \in Threads |-> IdleReq]
    /\ nreq = 0
    /\ mirror = <<>>
    /\ last = NoCall

Init == InitCommon /\ ioFault = FALSE /\ threaded = FALSE

\* the same program on a storage whose writes may fail
InitIO == InitCommon /\ ioFault = TRUE /\ threaded = FALSE

\* outcomes of a write to the storage
IoOutcomes == IF ioFault THEN BOOLEAN ELSE {TRUE}

\* a thread may take a new request
CanStart(t) ==
    /\ req[t].pc = "idle"
    /\ nreq < MaxRequests
    /\ threaded \/ (t = 1 /\ \A u \in Threads : req[u].pc = "idle")

Done(t, outcome) == [req[t] EXCEPT !.pc = "done", !.outcome = outcome]

\* ---- time -----------------------------------------------------------------
Tick ==
    /\ clock < MaxClock
    /\ \A t \in Threads : req[t].pc = "idle"
    /\ clock' = clock + 1
    /\ UNCHANGED <<calls, registry, config, parity, store, stations, discounts, audit, files, req, nreq>>

\* ---- main.py: mark_redeemed -----------------------------------------------
RedeemBegin(t, vid) ==
    /\ CanStart(t)
    /\ nreq' = nreq + 1
    /\ LET row == RepoGet(backend, store, vid)
           start == [IdleReq EXCEPT !.op = "redeem", !.vid = vid,
                                    !.target = "Redeemed", !.row = row]
       IN  IF row = NoRow
           THEN /\ req' = [req EXCEPT ![t] =
                             [start EXCEPT !.pc = "done", !.outcome = "NotFound"]]
                /\ audit' = audit
           ELSE LET current_status == CurrentStatus(row)
                IN  IF ~RedeemAllowed(enforce, current_status)
                    THEN /\ audit' = Append(audit,
                               AuditRow("redeem_denied", vid, current_status, "Redeemed"))
                         /\ req' = [req EXCEPT ![t] =
                               [start EXCEPT !.pc = "done", !.prev = current_status,
                                             !.outcome = "InvalidTransition"]]
                    ELSE /\ audit' = audit
                         /\ req' = [req EXCEPT ![t] =
                               [start EXCEPT !.pc = "redeem_set",
                                             !.prev = current_status]]
    /\ UNCHANGED <<calls, registry, config, parity, clock, store, stations, discounts, files>>

RedeemSet(t) ==
    /\ req[t].pc = "redeem_set"
    /\ \E io_ok \in IoOutcomes :
         LET res == RepoSetStatus(backend, store, req[t].vid, "Redeemed", clock, clock)
         IN  IF io_ok /\ res.err = ""
             THEN /\ store' = res.rows
                  /\ audit' = Append(audit,
                        AuditRow("redeem_success", req[t].vid, req[t].prev, "Redeemed"))
                  /\ req' = [req EXCEPT ![t] = Done(t, "ok")]
             ELSE /\ store' = store
                  /\ audit' = audit
                  /\ req' = [req EXCEPT ![t] = Done(t, "StorageIOError")]
    /\ UNCHANGED <<calls, registry, config, parity, clock, stations, discounts, files, nreq>>

\* ---- main.py: ops_set_status ----------------------------------------------
OpsBegin(t, vid, new_status, token) ==
    /\ CanStart(t)
    /\ nreq' = nreq + 1
    /\ LET row == RepoGet(backend, store, vid)
           start == [IdleReq EXCEPT !.op = "ops", !.vid = vid,
                                    !.target = new_status]
       IN  req' = [req EXCEPT ![t] =
             IF opsToken # "" /\ token # opsToken
             THEN [start EXCEPT !.pc = "done", !.outcome = "Forbidden"]
             ELSE IF new_status \notin {"Unverified", "Unredeemed", "Redeemed"}
             THEN [start EXCEPT !.pc = "done", !.outcome = "InvalidStatus"]
             ELSE IF row = NoRow
             THEN [start EXCEPT !.pc = "done", !.outcome = "NotFound"]
             ELSE [start EXCEPT !.row = row, !.prev = CurrentStatus(row),
                                !.pc = IF new_status = "Unredeemed"
                                       THEN "approve_persist" ELSE "ops_set"]]
    /\ UNCHANGED <<calls, registry, config, parity, clock, store, stations, discounts, audit, files>>

\* the branches "Redeemed" and "Unverified", then the audit row
OpsSetStatus(t) ==
    /\ req[t].pc = "ops_set"
    /\ \E io_ok \in IoOutcomes :
         LET res == RepoSetStatus(backend, store, req[t].vid, req[t].target,
                                  IF req[t].target = "Redeemed" THEN clock ELSE BLANK,
                                  clock)
         IN  IF io_ok /\ res.err = ""
             THEN /\ store' = res.rows
                  /\ audit' = Append(audit,
                        AuditRow("ops_set_status", req[t].vid, req[t].prev, req[t].target))
                  /\ req' = [req EXCEPT ![t] = Done(t, "ok")]
             ELSE /\ store' = store
                  /\ audit' = audit
                  /\ req' = [req EXCEPT ![t] = Done(t, "StorageIOError")]
    /\ UNCHANGED <<calls, registry, config, parity, clock, stations, discounts, files, nreq>>

\* ApprovePersist, flipping the status in the same write as the fields
ApprovePersist_FlipFirst(t) ==
    /\ req[t].pc = "approve_persist"
    /\ LET fields == ComputedFields(backend, req[t].row, stations, discounts, clock)
           res == RepoUpdateVoucherFields(backend, store, req[t].vid, fields)
       IN  /\ store' = RepoSetStatus(backend, res.rows, req[t].vid,
                                     "Unredeemed", BLANK, clock).rows
           /\ req' = [req EXCEPT ![t] =
                 [req[t] EXCEPT !.pc = "approve_assets",
                                !.price = fields.live_price_php_per_liter]]
    /\ UNCHANGED <<calls, registry, config, parity, clock, stations, discounts, audit, files, nreq>>

\* Approve: compute from the row read at the start, then persist
ApprovePersist(t) ==
    /\ req[t].pc = "approve_persist"
    /\ \E io_ok \in IoOutcomes :
         LET fields == ComputedFields(backend, req[t].row, stations, discounts, clock)
             res == RepoUpdateVoucherFields(backend, store, req[t].vid, fields)
         IN  IF io_ok /\ res.err = ""
             THEN /\ store' = res.rows
                  /\ req' = [req EXCEPT ![t] =
                        [req[t] EXCEPT !.pc = "approve_assets",
                                       !.price = fields.live_price_php_per_liter]]
             ELSE /\ store' = store
                  /\ req' = [req EXCEPT ![t] = Done(t, "StorageIOError")]
    /\ UNCHANGED <<calls, registry, config, parity, clock, stations, discounts, audit, files, nreq>>

\* ApproveAssets, flipping the status whether or not the generator failed
ApproveAssets_FlipOnError(t) ==
    /\ req[t].pc = "approve_assets"
    /\ \E qr_ok \in BOOLEAN, png_ok \in BOOLEAN :
         LET gen == GenerateAssetsForRow(files, req[t].vid, qr_ok, png_ok)
         IN  /\ files' = gen.files
             /\ store' = RepoSetStatus(backend, store, req[t].vid,
                                       "Unredeemed", BLANK, clock).rows
             /\ audit' = Append(audit,
                   AuditRow(IF gen.err # "" THEN "ops_generate_assets_error"
                            ELSE "ops_set_status",
                            req[t].vid, req[t].prev, req[t].target))
             /\ req' = [req EXCEPT ![t] =
                   Done(t, IF gen.err # "" THEN "AssetGenerationError" ELSE "ok")]
    /\ UNCHANGED <<calls, registry, config, parity, clock, stations, discounts, nreq>>

\* Approve: reload the row, fail fast, else generate the assets
ApproveAssets(t) ==
    /\ req[t].pc = "approve_assets"
    /\ LET fresh == RepoGet(backend, store, req[t].vid)
       IN  IF MissingAfterCompute(backend, fresh, req[t].price)
           THEN /\ audit' = Append(audit,
                      AuditRow("ops_generate_assets_skip", req[t].vid,
                               req[t].prev, req[t].target))
                /\ files' = files
                /\ req' = [req EXCEPT ![t] = Done(t, "ComputationError")]
           ELSE \E qr_ok \in BOOLEAN, png_ok \in BOOLEAN :
                  LET gen == GenerateAssetsForRow(files, req[t].vid, qr_ok, png_ok)
                  IN  IF gen.err # ""
                      THEN /\ audit' = Append(audit,
                                 AuditRow("ops_generate_assets_error", req[t].vid,
                                          req[t].prev, req[t].target))
                           /\ files' = gen.files
                           /\ req' = [req EXCEPT ![t] = Done(t, "AssetGenerationError")]
                      ELSE /\ audit' = audit
                           /\ files' = gen.files
                           /\ req' = [req EXCEPT ![t] =
                                 [req[t] EXCEPT !.pc = "approve_flip"]]
    /\ UNCHANGED <<calls, registry, config, parity, clock, store, stations, discounts, nreq>>

\* Approve: finally flip the status, then the audit row
ApproveFlip(t) ==
    /\ req[t].pc = "approve_flip"
    /\ \E io_ok \in IoOutcomes :
         LET res == RepoSetStatus(backend, store, req[t].vid, "Unredeemed", BLANK, clock)
         IN  IF io_ok /\ res.err = ""
             THEN /\ store' = res.rows
                  /\ audit' = Append(audit,
                        AuditRow("ops_set_status", req[t].vid, req[t].prev, req[t].target))
                  /\ req' = [req EXCEPT ![t] = Done(t, "ok")]
             ELSE /\ store' = store
                  /\ audit' = audit
                  /\ req' = [req EXCEPT ![t] = Done(t, "StorageIOError")]
    /\ UNCHANGED <<calls, registry, config, parity, clock, stations, discounts, files, nreq>>

\* the response has been sent
Finish(t) ==
    /\ req[t].pc = "done"
    /\ req' = [req EXCEPT ![t] = IdleReq]
    /\ UNCHANGED <<calls, registry, config, parity, clock, store, stations, discounts, audit, files, nreq>>


\* ---- main.py: book --------------------------------------------------------
\* _slug of the station names of the model
Slug(s) == Lower(s)

\* the booking-time price snapshot: by id, else by name, else by slug
BookPriceSnapshot(stns, station_name) ==
    LET first(S) == CHOOSE i \in S : \A j \in S : i <= j
        by_id == {i \in DOMAIN stns : Lower(stns[i].id) = Lower(station_name)}
        by_name == {i \in DOMAIN stns : Lower(stns[i].name) = Lower(station_name)}
        by_slug == {i \in DOMAIN stns : Slug(stns[i].name) = Slug(station_name)}
    IN  IF by_id # {} THEN stns[first(by_id)].price
        ELSE IF by_name # {} THEN stns[first(by_name)].price
        ELSE IF by_slug # {} THEN stns[first(by_slug)].price
        ELSE 0

\* the booking-time discount snapshot: exact key, else a normalized match, else 0.0
BookDiscountSnapshot(disc, station_name) ==
    LET val == DiscountGet(disc, station_name)
        alt == {k \in DOMAIN disc : Lower(k) = Lower(station_name)
                                      \/ Slug(k) = Slug(station_name)}
    IN  IF val # BLANK THEN val
        ELSE IF alt # {} THEN disc[CHOOSE k \in alt : TRUE]
        ELSE 0

\* the dict book hands to create_unverified_booking
BookRow(station_name, amount, stns, disc, now) ==
    [BlankRow EXCEPT
        !.station = station_name,
        !.requested_amount_php = amount,
        !.price_snapshot_php_per_liter = BookPriceSnapshot(stns, station_name),
        !.discount_snapshot_php_per_liter = BookDiscountSnapshot(disc, station_name),
        !.status = "Unverified",
        !.created_at = now,
        !.updated_at = now]

\* a POST of the booking form; gen is the id _gen_voucher_id() draws.  A
\* failure of create_unverified_booking is printed and the success page shown.
Book(t, station_name, amount, gen) ==
    /\ CanStart(t)
    /\ nreq' = nreq + 1
    /\ \E io_ok \in IoOutcomes :
         LET data == BookRow(station_name, amount, stations, discounts, clock)
             res == RepoCreateUnverifiedBooking(backend, store, data, clock + 1, gen, clock)
         IN  /\ store' = IF io_ok /\ res.err = "" THEN res.rows ELSE store
             /\ req' = [req EXCEPT ![t] =
                   [IdleReq EXCEPT !.pc = "done", !.op = "book",
                                   !.vid = IF io_ok /\ res.err = "" THEN gen ELSE "",
                                   !.outcome = "ok"]]
    /\ UNCHANGED <<calls, registry, config, parity, clock, stations, discounts, audit, files>>

\* ---- import through append_vouchers ---------------------------------------
\* rows as an import hands them over: no snapshot and no computed columns
ImportRow(vid, status, amount, ts) ==
    [BlankRow EXCEPT !.voucher_id = vid, !.station = "S1",
                     !.requested_amount_php = amount, !.status = status,
                     !.redemption_timestamp = ts]

ImportRows ==
    {ImportRow(v, "", 100000, BLANK) : v \in VoucherIds}
    \cup {ImportRow(v, "Unredeemed", 100000, BLANK) : v \in VoucherIds}
    \cup {ImportRow(v, "Redeemed", 100000, 1) : v \in VoucherIds}
    \cup {ImportRow(v, "Unverified", BLANK, BLANK) : v \in VoucherIds}
    \cup {ImportRow(v, "Unverified", 100000, 1) : v \in VoucherIds}

AppendVouchers(t, row) ==
    /\ CanStart(t)
    /\ nreq' = nreq + 1
    /\ store' = RepoAppend(backend, store, <<row>>).rows
    /\ UNCHANGED <<calls, registry, config, parity, clock, stations, discounts, audit, files, req>>

\* ---- the system -----------------------------------------------------------
\* voucher ids are interchangeable: the first voucher stored is called "A"
NewIds == IF store = <<>> THEN {"A"} ELSE VoucherIds

\* requests to /ops/voucher/<id>/status/<new_status>?token=<token>: every
\* valid target with the right token, one with a wrong token, one with an
\* unknown target
OpsRequests ==
    {<<v, n, "t">> : v \in VoucherIds, n \in {"Unverified", "Unredeemed", "Redeemed"}}
    \cup {<<"A", "Redeemed", "">>, <<"A", "Void", "t">>}

Next ==
    \/ Tick
    \/ \E t \in Threads, s \in BookStations, a \in Amounts, g \in NewIds :
            Book(t, s, a, g)
    \/ \E t \in Threads, r \in ImportRows :
            r.voucher_id \in NewIds /\ AppendVouchers(t, r)
    \/ \E t \in Threads, v \in VoucherIds : RedeemBegin(t, v)
    \/ \E t \in Threads : RedeemSet(t)
    \/ \E t \in Threads, o \in OpsRequests : OpsBegin(t, o[1], o[2], o[3])
    \/ \E t \in Threads : OpsSetStatus(t)
    \/ \E t \in Threads : ApprovePersist(t)
    \/ \E t \in Threads : ApproveAssets(t)
    \/ \E t \in Threads : ApproveFlip(t)
    \/ \E t \in Threads : Finish(t)

Spec == Init /\ [][Next]_vars

SpecIO == InitIO /\ [][Next]_vars

\* ---- CSVRepo and DBRepo side by side --------------------------------------
\* the same call is made on a CSVRepo (store) and on a DBRepo (mirror), both
\* created on empty data; last holds what the two calls gave back
InitParity ==
    /\ InitCommon /\ backend = "csv" /\ enforce = FALSE
    /\ ioFault = FALSE /\ threaded = FALSE

ParityCall(op, arg, csv, db) ==
    /\ nreq < MaxRequests
    /\ nreq' = nreq + 1
    /\ last' = [op |-> op, arg |-> arg, csv |-> csv, db |-> db]
    /\ UNCHANGED <<calls, registry, config, clock, stations, discounts, audit, files, req>>

ParityGet(vid) ==
    /\ ParityCall("get_voucher", [voucher_id |-> vid],
                  Result("", CsvGetVoucher(store, vid)),
                  Result("", DbGetVoucher(mirror, vid)))
    /\ UNCHANGED <<store, mirror>>

ParityListAll ==
    /\ ParityCall("list_all_vouchers", NoRow,
                  Result("", CsvListAll(store)),
                  Result("", DbListAll(mirror)))
    /\ UNCHANGED <<store, mirror>>

ParityListRecent(limit) ==
    /\ ParityCall("list_recent_vouchers", [limit |-> limit],
                  CsvListRecent(store, limit), DbListRecent(mirror, limit))
    /\ UNCHANGED <<store, mirror>>

ParitySetStatus(vid, new_status) ==
    LET c == CsvSetStatus(store, vid, new_status, clock, clock)
        d == DbSetStatus(mirror, vid, new_status, clock)
    IN  /\ ParityCall("set_status", [voucher_id |-> vid, new_status |-> new_status],
                      Result(c.err, NoRow), Result(d.err, NoRow))
        /\ store' = c.rows
        /\ mirror' = d.rows

ParityAppend(row) ==
    LET c == CsvAppendVouchers(store, <<row>>)
        d == DbAppendVouchers(mirror, <<row>>)
    IN  /\ ParityCall("append_vouchers", [rows |-> <<row>>],
                      Result(c.err, NoRow), Result(d.err, NoRow))
        /\ store' = c.rows
        /\ mirror' = d.rows

\* the dicts handed to create_unverified_booking: a row of the booking
\* form, and one that also carries a status, a redemption_timestamp and an
\* expected_refill_date
CreateData ==
    {BookRow("S1", 100000, stations, discounts, clock),
     [BookRow("S1", 100000, stations, discounts, clock) EXCEPT
              !.status = "Redeemed", !.redemption_timestamp = clock,
              !.expected_refill_date = clock]}

\* the rows handed to append_vouchers
ParityRows ==
    {r \in ImportRows : r.status \in {"", "Redeemed"} /\ r.voucher_id \in NewIds}

\* the refuel_datetime of the dict: none, or a time after now
RefuelDatetimes == {BLANK, clock + 1, clock + 3}

ParityCreate(data, rd, gen) ==
    LET c == CsvCreateUnverifiedBooking(store, data, rd, gen, clock)
        d == RepoCreateUnverifiedBooking("db", mirror, data, rd, gen, clock)
    IN  /\ ParityCall("create_unverified_booking",
                      [data |-> data, refuel_datetime |-> rd],
                      Result(c.err, c.row), Result(d.err, d.row))
        /\ store' = c.rows
        /\ mirror' = d.rows

\* a field map as ops_set_status builds it
UpdateFieldMaps ==
    {[liters_requested |-> 1667, total_dispensed_php |-> 100000]}

ParityUpdateFields(vid, fields) ==
    LET c == CsvUpdateVoucherFields(store, vid, fields)
        d == DbUpdateVoucherFields(mirror, vid, fields)
    IN  /\ ParityCall("update_voucher_fields",
                      [voucher_id |-> vid, fields |-> fields],
                      Result(c.err, NoRow), Result(d.err, NoRow))
        /\ store' = c.rows
        /\ mirror' = d.rows

NextParity ==
    \/ Tick
    \/ \E v \in VoucherIds, f \in UpdateFieldMaps : ParityUpdateFields(v, f)
    \/ \E v \in VoucherIds : ParityGet(v)
    \/ ParityListAll
    \/ \E l \in 1..MaxLimit : ParityListRecent(l)
    \/ \E v \in VoucherIds, n \in {"Unverified", "Unredeemed", "Redeemed"} :
            ParitySetStatus(v, n)
    \/ \E r \in ParityRows : ParityAppend(r)
    \/ \E d \in CreateData, rd \in RefuelDatetimes, g \in NewIds :
            ParityCreate(d, rd, g)

SpecParity == InitParity /\ [][NextParity]_vars

\* ---- price_store.py -------------------------------------------------------
\* prices handed to set_price, in thousandths of a peso; stored prices are
\* in centavos
NewPrices == {0, 4, 61234, 200000, 200001}
StationIds == {"p1", "zz"}

\* positions of the entries of the registry with a station id
StationMatches(stns, station_id) == {i \in DOMAIN stns : stns[i].id = station_id}

\* load_all on the document the file holds: json.load of an incomplete
\* document fails; data.get on a document that is a list fails
LoadAllError(doc) ==
    IF doc = "torn" THEN "JSONDecodeError"
    ELSE IF doc = "list" THEN "AttributeError"
    ELSE ""

\* get_station: the first entry with the id, or None
GetStation(stns, station_id) ==
    IF StationMatches(stns, station_id) = {} THEN NoRow
    ELSE stns[CHOOSE i \in StationMatches(stns, station_id) :
                 \A j \in StationMatches(stns, station_id) : i <= j]

\* set_price without the test of the price
SetPrice_NoRangeTest(doc, stns, station_id, new_price, now) ==
    LET m == StationMatches(stns, station_id)
        first == CHOOSE i \in m : \A j \in m : i <= j
        new == [stns EXCEPT ![first] =
                   [@ EXCEPT !.price = RoundDiv(new_price, 10), !.updated_at = now]]
    IN  IF LoadAllError(doc) # ""
        THEN [err |-> LoadAllError(doc), stations |-> stns, val |-> NoRow]
        ELSE IF m = {}
        THEN [err |-> "KeyError", stations |-> stns, val |-> NoRow]
        ELSE [err |-> "", stations |-> new, val |-> GetStation(new, station_id)]

\* set_price
SetPrice(doc, stns, station_id, new_price, now) ==
    LET m == StationMatches(stns, station_id)
        first == CHOOSE i \in m : \A j \in m : i <= j
        new == [stns EXCEPT ![first] =
                   [@ EXCEPT !.price = RoundDiv(new_price, 10), !.updated_at = now]]
    IN  IF new_price <= 0 \/ new_price > 200000
        THEN [err |-> "ValueError", stations |-> stns, val |-> NoRow]
        ELSE IF LoadAllError(doc) # ""
        THEN [err |-> LoadAllError(doc), stations |-> stns, val |-> NoRow]
        ELSE IF m = {}
        THEN [err |-> "KeyError", stations |-> stns, val |-> NoRow]
        ELSE [err |-> "", stations |-> new, val |-> GetStation(new, station_id)]

\* the dicts handed to upsert_station: a new station, and a known one with a
\* price of 0 and no updated_at
UpsertInputs ==
    {[id |-> "p2", name |-> "X", price |-> 5800, updated_at |-> 0],
     [id |-> "p1", name |-> "S1", price |-> 0, updated_at |-> BLANK]}

\* upsert_station: the dict replaces the first entry with its id or is
\* appended; its price is stored as given
UpsertStation(doc, stns, st, now) ==
    LET st2 == [st EXCEPT !.updated_at = IF @ = BLANK THEN now ELSE @]
        m == StationMatches(stns, st.id)
        first == CHOOSE i \in m : \A j \in m : i <= j
    IN  IF LoadAllError(doc) # ""
        THEN [err |-> LoadAllError(doc), stations |-> stns, val |-> NoRow]
        ELSE IF m # {}
        THEN [err |-> "", stations |-> [stns EXCEPT ![first] = st2], val |-> st2]
        ELSE [err |-> "", stations |-> Append(stns, st2), val |-> st2]

RegistryCall(op, arg, err, val) ==
    /\ nreq < MaxRequests
    /\ job.pc = "idle"
    /\ nreq' = nreq + 1
    /\ ret' = [op |-> op, arg |-> arg, err |-> err, val |-> val]
    /\ UNCHANGED <<calls, config, parity, clock, store, audit, files, req, tmpFiles, job>>

RegSetPrice(station_id, new_price) ==
    LET r == SetPrice(docs.prices, stations, station_id, new_price, clock)
    IN  /\ RegistryCall("set_price",
                        [station_id |-> station_id, new_price |-> new_price],
                        r.err, r.val)
        /\ stations' = r.stations
        /\ UNCHANGED <<docs, discounts, history>>

RegUpsertStation(st) ==
    LET r == UpsertStation(docs.prices, stations, st, clock)
    IN  /\ RegistryCall("upsert_station", [st |-> st], r.err, r.val)
        /\ stations' = r.stations
        /\ UNCHANGED <<docs, discounts, history>>

\* ---- discount_store.py ----------------------------------------------------
\* discounts handed to the store, in hundred-thousandths of a peso (BLANK is
\* None); stored discounts are in ten-thousandths
\* the text "nan", which float() turns into the float nan
NAN == -2
\* a text float() rejects ("abc")
TEXT == -3
NewDiscounts == {BLANK, TEXT, NAN, -100000, 0, 175000, 250004}
DiscountStations == {"S1", " S1 ", "X"}

\* _validate_and_round: round(v, 4) of a value that is not negative; nan is
\* not less than 0 and round(nan, 4) is nan
ValidateAndRound(value) ==
    IF value = TEXT THEN [err |-> "DiscountValueError", val |-> BLANK]
    ELSE IF value = NAN THEN [err |-> "", val |-> NAN]
    ELSE IF value < 0 THEN [err |-> "DiscountValueError", val |-> BLANK]
    ELSE [err |-> "", val |-> RoundDiv(value, 10)]

\* data[key] = new_val
DictSet(data, key, val) ==
    [k \in DOMAIN data \cup {key} |-> IF k = key THEN val ELSE data[k]]

\* del data[key]
DictDel(data, key) == [k \in DOMAIN data \ {key} |-> data[k]]

\* a row of discount_history.csv; an absent value (BLANK) is written as ""
HistoryRow(now, key, old, new) ==
    [timestamp_iso |-> now, station |-> key,
     old_discount_per_liter |-> old, new_discount_per_liter |-> new]

\* DiscountStore.set, writing no row for a removal
DiscountSet_SilentRemoval(disc, hist, station, value, now) ==
    LET key == NormalizeStation(station)
        old == DiscountGet(disc, key)
        v == ValidateAndRound(value)
    IN  IF value = BLANK
        THEN IF key \in DOMAIN disc
             THEN [err |-> "", discounts |-> DictDel(disc, key), history |-> hist]
             ELSE [err |-> "", discounts |-> disc, history |-> hist]
        ELSE IF v.err # ""
        THEN [err |-> v.err, discounts |-> disc, history |-> hist]
        ELSE [err |-> "", discounts |-> DictSet(disc, key, v.val),
              history |-> Append(hist, HistoryRow(now, key, old, v.val))]

\* DiscountStore.set
DiscountSet(disc, hist, station, value, now) ==
    LET key == NormalizeStation(station)
        old == DiscountGet(disc, key)
        v == ValidateAndRound(value)
    IN  IF value = BLANK
        THEN IF key \in DOMAIN disc
             THEN [err |-> "", discounts |-> DictDel(disc, key),
                   history |-> Append(hist, HistoryRow(now, key, old, BLANK))]
             ELSE [err |-> "", discounts |-> disc, history |-> hist]
        ELSE IF v.err # ""
        THEN [err |-> v.err, discounts |-> disc, history |-> hist]
        ELSE [err |-> "", discounts |-> DictSet(disc, key, v.val),
              history |-> Append(hist, HistoryRow(now, key, old, v.val))]

\* the loop of set_many over updates.items(), from item k on; acc holds the
\* dict and the history rows so far
RECURSIVE SetManyLoop(_, _, _, _)
SetManyLoop(updates, k, acc, now) ==
    IF k > Len(updates) \/ acc.err # "" THEN acc
    ELSE LET key == NormalizeStation(updates[k][1])
             value == updates[k][2]
             old == DiscountGet(acc.data, key)
             v == ValidateAndRound(value)
             next ==
                 IF value = BLANK
                 THEN IF key \in DOMAIN acc.data
                      THEN [acc EXCEPT !.data = DictDel(@, key),
                                       !.rows = Append(@, HistoryRow(now, key, old, BLANK))]
                      ELSE acc
                 ELSE IF v.err # "" THEN [acc EXCEPT !.err = v.err]
                 ELSE [acc EXCEPT !.data = DictSet(@, key, v.val),
                                  !.rows = Append(@, HistoryRow(now, key, old, v.val))]
         IN  SetManyLoop(updates, k + 1, next, now)

\* DiscountStore.set_many, every row carrying the value read before the loop
DiscountSetMany_OldFromStart(disc, hist, updates, now) ==
    LET r == SetManyLoop(updates, 1, [err |-> "", data |-> disc, rows |-> <<>>], now)
        rows == [k \in DOMAIN r.rows |->
                   [r.rows[k] EXCEPT !.old_discount_per_liter =
                                         DiscountGet(disc, r.rows[k].station)]]
    IN  IF r.err # "" THEN [err |-> r.err, discounts |-> disc, history |-> hist]
        ELSE [err |-> "", discounts |-> r.data, history |-> hist \o rows]

\* DiscountStore.set_many: nothing is saved when a value is rejected
DiscountSetMany(disc, hist, updates, now) ==
    LET r == SetManyLoop(updates, 1, [err |-> "", data |-> disc, rows |-> <<>>], now)
    IN  IF r.err # "" THEN [err |-> r.err, discounts |-> disc, history |-> hist]
        ELSE [err |-> "", discounts |-> r.data, history |-> hist \o r.rows]

\* the keys of a dict one after the other (the model keeps no order of keys)
RECURSIVE Items(_)
Items(keys) ==
    IF keys = {} THEN <<>>
    ELSE LET k == CHOOSE k \in keys : TRUE IN <<k>> \o Items(keys \ {k})

\* DiscountStore.clear_all
DiscountClearAll(disc, hist, now) ==
    LET keys == Items(DOMAIN disc)
        rows == [i \in DOMAIN keys |-> HistoryRow(now, keys[i], disc[keys[i]], BLANK)]
    IN  IF DOMAIN disc = {} THEN [err |-> "", discounts |-> disc, history |-> hist]
        ELSE [err |-> "", discounts |-> [k \in {} |-> 0], history |-> hist \o rows]

\* the update dicts handed to set_many, item by item
UpdateBatches ==
    {<< <<"S1", 175000>>, <<" S1 ", BLANK>> >>,
     << <<"X", 0>>, <<"S1", BLANK>> >>,
     << <<"X", 250004>>, <<"S1", -100000>> >>,
     << <<"X", BLANK>> >>}

RegDiscountSet(station, value) ==
    LET r == DiscountSet(discounts, history, station, value, clock)
    IN  /\ RegistryCall("set", [station |-> station, discount_per_liter |-> value],
                        r.err, NoRow)
        /\ discounts' = r.discounts
        /\ history' = r.history
        /\ UNCHANGED <<docs, stations>>

RegDiscountSetMany(updates) ==
    LET r == DiscountSetMany(discounts, history, updates, clock)
    IN  /\ RegistryCall("set_many", [updates |-> updates], r.err, NoRow)
        /\ discounts' = r.discounts
        /\ history' = r.history
        /\ UNCHANGED <<docs, stations>>

RegDiscountClearAll ==
    LET r == DiscountClearAll(discounts, history, clock)
    IN  /\ RegistryCall("clear_all", NoRow, r.err, NoRow)
        /\ discounts' = r.discounts
        /\ history' = r.history
        /\ UNCHANGED <<docs, stations>>

\* ---- the two registries as the admin pages and scripts drive them ---------
InitRegistry ==
    /\ InitCommon /\ backend = "csv" /\ enforce = FALSE
    /\ ioFault = FALSE /\ threaded = FALSE

NextRegistry ==
    \/ Tick
    \/ \E i \in StationIds, p \in NewPrices : RegSetPrice(i, p)
    \/ \E st \in UpsertInputs : RegUpsertStation(st)
    \/ \E n \in DiscountStations, v \in NewDiscounts : RegDiscountSet(n, v)
    \/ \E u \in UpdateBatches : RegDiscountSetMany(u)
    \/ RegDiscountClearAll

SpecRegistry == InitRegistry /\ [][NextRegistry]_vars


\* ---- the writes of the registry files, step by step -----------------------
\* a call that ends before it writes: an error, or nothing to store
NoWrite(op, arg, err) ==
    /\ RegistryCall(op, arg, err, NoRow)
    /\ UNCHANGED <<docs, stations, discounts, history>>

\* _atomic_write / _save, first step: the temporary file is created next to
\* the registry file and is still incomplete
StartWrite(op, arg, val, file, doc, rows) ==
    /\ nreq < MaxRequests
    /\ job.pc = "idle"
    /\ nreq' = nreq + 1
    /\ job' = [pc |-> "tmp_open", file |-> file, doc |-> doc, rows |-> rows,
               ret |-> [op |-> op, arg |-> arg, err |-> "", val |-> val]]
    /\ tmpFiles' = tmpFiles \cup {[of |-> file, complete |-> FALSE]}
    /\ UNCHANGED <<calls, config, parity, clock, store, audit, files, req, ret,
                   docs, stations, discounts, history>>

\* set_price up to the start of save_all
StepSetPrice(station_id, new_price) ==
    LET r == SetPrice(docs.prices, stations, station_id, new_price, clock)
        arg == [station_id |-> station_id, new_price |-> new_price]
    IN  \/ r.err # "" /\ NoWrite("set_price", arg, r.err)
        \/ r.err = "" /\ StartWrite("set_price", arg, r.val, "prices", r.stations, <<>>)

\* DiscountStore.set up to the start of _save
StepDiscountSet(station, value) ==
    LET r == DiscountSet(discounts, history, station, value, clock)
        arg == [station |-> station, discount_per_liter |-> value]
        rows == SubSeq(r.history, Len(history) + 1, Len(r.history))
    IN  \/ (r.err # "" \/ rows = <<>>) /\ NoWrite("set", arg, r.err)
        \/ r.err = "" /\ rows # <<>>
              /\ StartWrite("set", arg, NoRow, "discounts", r.discounts, rows)

\* DiscountStore.clear_all up to the start of _save
StepDiscountClearAll ==
    LET r == DiscountClearAll(discounts, history, clock)
        rows == SubSeq(r.history, Len(history) + 1, Len(r.history))
    IN  \/ rows = <<>> /\ NoWrite("clear_all", NoRow, r.err)
        \/ rows # <<>>
              /\ StartWrite("clear_all", NoRow, NoRow, "discounts", r.discounts, rows)

\* the document is written to the temporary file and the file is closed
WriteTmp ==
    /\ job.pc = "tmp_open"
    /\ tmpFiles' = (tmpFiles \ {[of |-> job.file, complete |-> FALSE]})
                       \cup {[of |-> job.file, complete |-> TRUE]}
    /\ job' = [job EXCEPT !.pc = "tmp_written"]
    /\ UNCHANGED <<calls, config, parity, clock, store, audit, files, req, nreq, ret,
                   docs, stations, discounts, history>>

\* shutil.move / os.replace: the temporary file takes the place of the
\* registry file in one step; set_price returns, the discount store goes on
\* to the audit file
ReplaceFile ==
    /\ job.pc = "tmp_written"
    /\ tmpFiles' = tmpFiles \ {[of |-> job.file, complete |-> TRUE]}
    /\ stations' = IF job.file = "prices" THEN job.doc ELSE stations
    /\ discounts' = IF job.file = "discounts" THEN job.doc ELSE discounts
    /\ IF job.rows # <<>>
       THEN job' = [job EXCEPT !.pc = "append"] /\ ret' = ret
       ELSE job' = NoJob /\ ret' = job.ret
    /\ UNCHANGED <<calls, config, parity, clock, store, audit, files, req, nreq,
                   docs, history>>

\* _append_history / _append_history_rows
AppendHistory ==
    /\ job.pc = "append"
    /\ history' = history \o job.rows
    /\ job' = NoJob
    /\ ret' = job.ret
    /\ UNCHANGED <<calls, config, parity, clock, store, audit, files, req, nreq,
                   docs, tmpFiles, stations, discounts>>

\* the stations the sync tool builds from data/stations.csv
SyncRecords == <<[id |-> "s1", name |-> "S1", price |-> 0, updated_at |-> 0]>>

\* tools/sync_stations_from_csv.py: open(JSON_PATH, "w") empties the
\* registry file itself
SyncOpen ==
    /\ nreq < MaxRequests
    /\ job.pc = "idle"
    /\ nreq' = nreq + 1
    /\ docs' = [docs EXCEPT !.prices = "torn"]
    /\ stations' = <<>>
    /\ job' = [pc |-> "sync_dump", file |-> "prices", doc |-> SyncRecords,
               rows |-> <<>>,
               ret |-> [op |-> "sync", arg |-> NoRow, err |-> "", val |-> NoRow]]
    /\ UNCHANGED <<calls, config, parity, clock, store, audit, files, req, ret,
                   tmpFiles, discounts, history>>

\* json.dump(records, f) and close: the file holds a list of stations
SyncDump ==
    /\ job.pc = "sync_dump"
    /\ docs' = [docs EXCEPT !.prices = "list"]
    /\ stations' = job.doc
    /\ job' = NoJob
    /\ ret' = job.ret
    /\ UNCHANGED <<calls, config, parity, clock, store, audit, files, req, nreq,
                   tmpFiles, discounts, history>>

\* the process dies in the middle of a write and is started again: the
\* files stay as they are
Crash ==
    /\ job.pc # "idle"
    /\ job' = NoJob
    /\ ret' = [op |-> "crash", arg |-> [pc |-> job.pc, file |-> job.file],
               err |-> "", val |-> NoRow]
    /\ UNCHANGED <<calls, config, parity, clock, store, audit, files, req, nreq,
                   docs, tmpFiles, stations, discounts, history>>

NextCrash ==
    \/ Tick
    \/ \E i \in StationIds, p \in NewPrices : StepSetPrice(i, p)
    \/ \E n \in DiscountStations, v \in NewDiscounts : StepDiscountSet(n, v)
    \/ StepDiscountClearAll
    \/ WriteTmp
    \/ ReplaceFile
    \/ AppendHistory
    \/ SyncOpen
    \/ SyncDump
    \/ Crash

SpecCrash == InitRegistry /\ [][NextCrash]_vars


\* ---- concurrent callers of the stores -------------------------------------
\* Flask serves each request on a thread of its own; every thread is in at
\* most one call of a store, which it takes step by step
DiscountOps == {"set", "set_many", "clear_all", "get"}

\* the calls the threads make
ThreadCalls ==
    {[op |-> "set", arg |-> [station |-> "S1", discount_per_liter |-> v]] :
        v \in {BLANK, 175000}}
    \cup {[op |-> "set_many", arg |-> [updates |-> u]] :
            u \in {<< <<"S1", 175000>>, <<"X", 0>> >>,
                   << <<"X", 250004>>, <<"S1", -100000>> >>}}
    \cup {[op |-> "clear_all", arg |-> NoRow],
          [op |-> "get", arg |-> [station |-> "X"]]}
    \cup {[op |-> "set_price", arg |-> [station_id |-> i, new_price |-> 61234]] :
            i \in {"p1", "p2"}}
    \cup {[op |-> "set_status", arg |-> [voucher_id |-> "A", new_status |-> "Redeemed"]],
          [op |-> "create_unverified_booking", arg |-> [voucher_id |-> "B"]]}

\* where a call starts: at the lock of the DiscountStore, or at the read of
\* the file
FirstPc(op) == IF op \in DiscountOps THEN "acquire" ELSE "load"

Goto(t, pc) == call' = [call EXCEPT ![t].pc = pc]

Return(t, err, val) ==
    call' = [call EXCEPT ![t].pc = "done", ![t].err = err, ![t].val = val]

\* a thread enters a call
CallBegin(t, c) ==
    /\ call[t].pc \in {"idle", "done"}
    /\ nreq < MaxRequests
    /\ nreq' = nreq + 1
    /\ call' = [call EXCEPT ![t] =
                   [IdleCall EXCEPT !.pc = FirstPc(c.op), !.op = c.op, !.arg = c.arg]]
    /\ UNCHANGED <<lock, registry, config, parity, clock, store, stations,
                   discounts, audit, files, req>>

\* "with self._lock" without the lock
DsAcquire_NoLock(t) ==
    /\ call[t].pc = "acquire"
    /\ lock' = t
    /\ Goto(t, "load")
    /\ UNCHANGED <<registry, config, parity, clock, store, stations,
                   discounts, audit, files, req, nreq>>

\* "with self._lock": the thread waits until the lock is free
DsAcquire(t) ==
    /\ call[t].pc = "acquire"
    /\ lock = 0
    /\ lock' = t
    /\ Goto(t, "load")
    /\ UNCHANGED <<registry, config, parity, clock, store, stations,
                   discounts, audit, files, req, nreq>>

\* DiscountStore._load; get returns the entry of the dict it loaded
DsLoad(t) ==
    /\ call[t].pc = "load" /\ call[t].op \in DiscountOps
    /\ call' = [call EXCEPT
                   ![t].data = discounts,
                   ![t].val = IF call[t].op = "get"
                              THEN [discount |-> DiscountGet(discounts, call[t].arg.station)]
                              ELSE NoRow,
                   ![t].pc = IF call[t].op = "get" THEN "release" ELSE "modify"]
    /\ UNCHANGED <<lock, registry, config, parity, clock, store, stations,
                   discounts, audit, files, req, nreq>>

\* set_many applying the first update of the batch only
DsApply_FirstItemOnly(op, arg, data, now) ==
    IF op = "set" THEN DiscountSet(data, <<>>, arg.station, arg.discount_per_liter, now)
    ELSE IF op = "set_many"
    THEN DiscountSetMany(data, <<>>, SubSeq(arg.updates, 1, 1), now)
    ELSE DiscountClearAll(data, <<>>, now)

\* what set, set_many and clear_all make of the dict they loaded
DsApply(op, arg, data, now) ==
    IF op = "set" THEN DiscountSet(data, <<>>, arg.station, arg.discount_per_liter, now)
    ELSE IF op = "set_many" THEN DiscountSetMany(data, <<>>, arg.updates, now)
    ELSE DiscountClearAll(data, <<>>, now)

\* the change of the loaded dict and _save: set and clear_all save when they
\* changed the dict, set_many whenever no value was rejected
DsSave(t) ==
    /\ call[t].pc = "modify" /\ call[t].op \in DiscountOps
    /\ LET r == DsApply(call[t].op, call[t].arg, call[t].data, clock)
           saves == r.err = "" /\ (call[t].op = "set_many" \/ r.history # <<>>)
       IN  /\ discounts' = IF saves THEN r.discounts ELSE discounts
           /\ call' = [call EXCEPT
                          ![t].err = r.err,
                          ![t].rows = r.history,
                          ![t].pc = IF r.err = "" /\ r.history # <<>>
                                    THEN "append" ELSE "release"]
    /\ UNCHANGED <<lock, registry, config, parity, clock, store, stations,
                   audit, files, req, nreq>>

\* _append_history / _append_history_rows of the call
DsAppend(t) ==
    /\ call[t].pc = "append"
    /\ history' = history \o call[t].rows
    /\ Goto(t, "release")
    /\ UNCHANGED <<lock, docs, tmpFiles, job, ret, config, parity, clock, store,
                   stations, discounts, audit, files, req, nreq>>

\* the end of "with self._lock"
DsRelease(t) ==
    /\ call[t].pc = "release"
    /\ lock' = IF lock = t THEN 0 ELSE lock
    /\ Goto(t, "done")
    /\ UNCHANGED <<registry, config, parity, clock, store, stations,
                   discounts, audit, files, req, nreq>>

\* set_price: the test of the price and load_all
PsLoad(t) ==
    /\ call[t].pc = "load" /\ call[t].op = "set_price"
    /\ IF call[t].arg.new_price <= 0 \/ call[t].arg.new_price > 200000
       THEN Return(t, "ValueError", NoRow)
       ELSE IF LoadAllError(docs.prices) # ""
       THEN Return(t, LoadAllError(docs.prices), NoRow)
       ELSE call' = [call EXCEPT ![t].data = stations, ![t].pc = "modify"]
    /\ UNCHANGED <<lock, registry, config, parity, clock, store, stations,
                   discounts, audit, files, req, nreq>>

\* set_price: the change of the loaded document and save_all
PsSave(t) ==
    /\ call[t].pc = "modify" /\ call[t].op = "set_price"
    /\ LET r == SetPrice("object", call[t].data, call[t].arg.station_id,
                         call[t].arg.new_price, clock)
       IN  IF r.err # ""
           THEN Return(t, r.err, NoRow) /\ stations' = stations
           ELSE Goto(t, "reread") /\ stations' = r.stations
    /\ UNCHANGED <<lock, registry, config, parity, clock, store,
                   discounts, audit, files, req, nreq>>

\* set_price: get_station reads the file again for the entry to return
PsReturn(t) ==
    /\ call[t].pc = "reread"
    /\ Return(t, "", GetStation(stations, call[t].arg.station_id))
    /\ UNCHANGED <<lock, registry, config, parity, clock, store, stations,
                   discounts, audit, files, req, nreq>>

\* CSVRepo._read at the start of set_status and create_unverified_booking
CsvLoad(t) ==
    /\ call[t].pc = "load"
    /\ call[t].op \in {"set_status", "create_unverified_booking"}
    /\ call' = [call EXCEPT ![t].data = store, ![t].pc = "modify"]
    /\ UNCHANGED <<lock, registry, config, parity, clock, store, stations,
                   discounts, audit, files, req, nreq>>

\* the change of the frame that was read and CSVRepo._write of the whole file
CsvSave(t) ==
    /\ call[t].pc = "modify"
    /\ call[t].op \in {"set_status", "create_unverified_booking"}
    /\ LET r == IF call[t].op = "set_status"
                THEN CsvSetStatus(call[t].data, call[t].arg.voucher_id,
                                  call[t].arg.new_status, clock, clock)
                ELSE CsvCreateUnverifiedBooking(
                         call[t].data,
                         [BookRow("S1", 100000, stations, discounts, clock)
                              EXCEPT !.voucher_id = call[t].arg.voucher_id],
                         BLANK, call[t].arg.voucher_id, clock)
       IN  /\ store' = r.rows
           /\ Return(t, r.err, NoRow)
    /\ UNCHANGED <<lock, registry, config, parity, clock, stations,
                   discounts, audit, files, req, nreq>>

\* the registry with two stations and the store with voucher A, as two
\* bookings and one discount update left them
ThreadStations ==
    InitStations \o <<[id |-> "p2", name |-> "X", price |-> 5800, updated_at |-> 0]>>

ThreadStore ==
    CsvCreateUnverifiedBooking(<<>>, BookRow("S1", 100000, InitStations, InitDiscounts, 0),
                               BLANK, "A", 0).rows

InitThreads ==
    /\ history = InitHistory
    /\ docs = InitDocs
    /\ tmpFiles = {}
    /\ job = NoJob
    /\ ret = NoRet
    /\ lock = 0
    /\ call = [t \in Threads |-> IdleCall]
    /\ backend = "csv" /\ enforce = FALSE /\ opsToken = "t"
    /\ ioFault = FALSE /\ threaded = TRUE
    /\ clock = 1
    /\ store = ThreadStore
    /\ stations = ThreadStations
    /\ discounts = InitDiscounts
    /\ audit = <<>>
    /\ files = {}
    /\ req = [t \in Threads |-> IdleReq]
    /\ nreq = 0
    /\ mirror = <<>>
    /\ last = NoCall

NextThreads ==
    \/ \E t \in Threads, c \in ThreadCalls : CallBegin(t, c)
    \/ \E t \in Threads : DsAcquire(t)
    \/ \E t \in Threads : DsLoad(t)
    \/ \E t \in Threads : DsSave(t)
    \/ \E t \in Threads : DsAppend(t)
    \/ \E t \in Threads : DsRelease(t)
    \/ \E t \in Threads : PsLoad(t)
    \/ \E t \in Threads : PsSave(t)
    \/ \E t \in Threads : PsReturn(t)
    \/ \E t \in Threads : CsvLoad(t)
    \/ \E t \in Threads : CsvSave(t)

SpecThreads == InitThreads /\ [][NextThreads]_vars


\* ---- bookings, approvals and registry changes side by side ----------------
\* the discount registry with S1 at 2.5 and its audit row, or without entries
SnapRegistries ==
    {[discounts |-> InitDiscounts, history |-> InitHistory],
     [discounts |-> [n \in {} |-> 0], history |-> <<>>]}

\* voucher A as book left it: 1000 pesos at S1
SnapBooked(disc) ==
    CsvCreateUnverifiedBooking(<<>>, BookRow("S1", 100000, InitStations, disc, 0),
                               BLANK, "A", 0).rows

\* voucher A as a first Approve left it
SnapApproved(disc) ==
    LET rows == SnapBooked(disc)
        fields == ComputedFields("csv", RepoGet("csv", rows, "A"),
                                 InitStations, disc, 0)
        upd == RepoUpdateVoucherFields("csv", rows, "A", fields).rows
    IN  RepoSetStatus("csv", upd, "A", "Unredeemed", BLANK, 0).rows

\* prices and discounts the admin pages set in this specification
SnapPrices == {61234}
SnapDiscountValues == {0, 175000}

InitSnapshots ==
    /\ docs = InitDocs
    /\ tmpFiles = {}
    /\ job = NoJob
    /\ ret = NoRet
    /\ lock = 0
    /\ call = [t \in Threads |-> IdleCall]
    /\ backend = "csv" /\ enforce = FALSE /\ opsToken = "t"
    /\ ioFault = FALSE /\ threaded = FALSE
    /\ clock = 1
    /\ stations = InitStations
    /\ \E g \in SnapRegistries :
         /\ discounts = g.discounts
         /\ history = g.history
         /\ \/ /\ store = SnapBooked(g.discounts)
               /\ audit = <<>>
               /\ files = {}
            \/ /\ store = SnapApproved(g.discounts)
               /\ audit = <<AuditRow("ops_set_status", "A", "Unverified", "Unredeemed")>>
               /\ files = GenerateAssetsForRow({}, "A", TRUE, TRUE).files
    /\ req = [t \in Threads |-> IdleReq]
    /\ nreq = 0
    /\ mirror = <<>>
    /\ last = NoCall

NextSnapshots ==
    \/ Tick
    \/ \E t \in Threads, g \in VoucherIds :
            Matches(store, g) = {} /\ Book(t, "S1", 100000, g)
    \/ \E t \in Threads, v \in VoucherIds : RedeemBegin(t, v)
    \/ \E t \in Threads : RedeemSet(t)
    \/ \E t \in Threads, o \in OpsRequests : OpsBegin(t, o[1], o[2], o[3])
    \/ \E t \in Threads : OpsSetStatus(t)
    \/ \E t \in Threads : ApprovePersist(t)
    \/ \E t \in Threads : ApproveAssets(t)
    \/ \E t \in Threads : ApproveFlip(t)
    \/ \E t \in Threads : Finish(t)
    \/ \E p \in SnapPrices : RegSetPrice("p1", p)
    \/ \E v \in SnapDiscountValues : RegDiscountSet("S1", v)

SpecSnapshots == InitSnapshots /\ [][NextSnapshots]_vars


\* ---- requests on one voucher served by two threads ------------------------
\* the operator's requests on voucher A, with the right token
RaceRequests ==
    {<<"A", n, "t">> : n \in {"Unverified", "Unredeemed", "Redeemed"}}

InitRace ==
    /\ history = InitHistory
    /\ docs = InitDocs
    /\ tmpFiles = {}
    /\ job = NoJob
    /\ ret = NoRet
    /\ lock = 0
    /\ call = [t \in Threads |-> IdleCall]
    /\ backend = "csv" /\ enforce \in BOOLEAN /\ opsToken = "t"
    /\ ioFault = FALSE /\ threaded = TRUE
    /\ clock = 1
    /\ stations = InitStations
    /\ discounts = InitDiscounts
    /\ \/ /\ store = SnapBooked(InitDiscounts)
          /\ audit = <<>>
          /\ files = {}
       \/ /\ store = SnapApproved(InitDiscounts)
          /\ audit = <<AuditRow("ops_set_status", "A", "Unverified", "Unredeemed")>>
          /\ files = GenerateAssetsForRow({}, "A", TRUE, TRUE).files
    /\ req = [t \in Threads |-> IdleReq]
    /\ nreq = 0
    /\ mirror = <<>>
    /\ last = NoCall

NextRace ==
    \/ Tick
    \/ \E t \in Threads : RedeemBegin(t, "A")
    \/ \E t \in Threads : RedeemSet(t)
    \/ \E t \in Threads, o \in RaceRequests : OpsBegin(t, o[1], o[2], o[3])
    \/ \E t \in Threads : OpsSetStatus(t)
    \/ \E t \in Threads : ApprovePersist(t)
    \/ \E t \in Threads : ApproveAssets(t)
    \/ \E t \in Threads : ApproveFlip(t)
    \/ \E t \in Threads : Finish(t)

SpecRace == InitRace /\ [][NextRace]_vars


\* ==== properties ===========================================================
Approving(t) == req[t].op = "ops" /\ req[t].target = "Unredeemed"
Redeeming(t) == req[t].op = "redeem"

\* the status and redemption_timestamp columns of a table
StatusColumns(rows) ==
    [i \in DOMAIN rows |-> <<rows[i].status, rows[i].redemption_timestamp>>]

\* C1: a step of an Approve that changes the status or redemption_timestamp
\* of any row is the final flip; when it is taken the computed fields and
\* computed_at are already stored in the voucher, the QR artifact made by the
\* asset generator is on disk, and the step writes Unredeemed with an empty
\* redemption_timestamp.
C1_ApproveOrder ==
    [][\A t \in Threads :
         (Approving(t) /\ req'[t] # req[t]
            /\ StatusColumns(store') # StatusColumns(store))
         => /\ req[t].pc = "approve_flip"
            /\ <<req[t].vid, "qr">> \in files
            /\ LET fields == ComputedFields(backend, req[t].row, stations,
                                            discounts, clock)
               IN  \A i \in Matches(store, req[t].vid) :
                     /\ \A c \in DOMAIN fields : store[i][c] = fields[c]
                     /\ store'[i].status = "Unredeemed"
                     /\ store'[i].redemption_timestamp = BLANK]_vars

C1_Witness ==
    \E t \in Threads :
        /\ req[t].pc = "done" /\ Approving(t) /\ req[t].outcome = "ok"
        /\ req[t].prev # "Unredeemed"
        /\ \A i \in Matches(store, req[t].vid) : store[i].status = "Unredeemed"

\* C2: when an Approve has failed with AssetGenerationError the voucher has
\* the status and redemption_timestamp it had when the Approve read it, and
\* it still passes the check that precedes asset generation, so the Approve
\* can be repeated.
C2_AssetFailureKeepsStatus ==
    \A t \in Threads :
        (req[t].pc = "done" /\ Approving(t)
           /\ req[t].outcome = "AssetGenerationError")
        => LET fresh == RepoGet(backend, store, req[t].vid)
           IN  /\ fresh # NoRow
               /\ fresh.status = req[t].row.status
               /\ fresh.redemption_timestamp = req[t].row.redemption_timestamp
               /\ ~MissingAfterCompute(backend, fresh,
                                       ResolvePrice(backend, fresh, stations))

\* an Approve of an Unverified voucher has failed in the generator
C2_Witness ==
    \E t \in Threads :
        /\ req[t].pc = "done" /\ Approving(t)
        /\ req[t].outcome = "AssetGenerationError"
        /\ req[t].row.status = "Unverified"
        /\ <<req[t].vid, "qr">> \notin files


\* an Approve that got past the persist step
PastPersist(t) ==
    /\ Approving(t)
    /\ \/ req[t].pc \in {"approve_assets", "approve_flip"}
       \/ req[t].pc = "done"
          /\ req[t].outcome \in {"ok", "ComputationError", "AssetGenerationError"}

\* an Approve that got past the check of amount and price
PastCheck(t) ==
    /\ Approving(t)
    /\ \/ req[t].pc = "approve_flip"
       \/ req[t].pc = "done" /\ req[t].outcome \in {"ok", "AssetGenerationError"}

\* C3: an Approve gets to the asset generator only for a voucher whose stored
\* requested amount is a positive number and whose resolved price is a
\* positive number; otherwise it ends in ComputationError.
C3_MissingAmountOrPriceFails ==
    \A t \in Threads :
        PastCheck(t)
        => /\ Pos(RepoGet(backend, store, req[t].vid).requested_amount_php)
           /\ Pos(req[t].price)

\* C4 as claimed: an Approve whose resolved price is 0 stores
\* liters_requested = 0 and total_dispensed = amount and ends in success with
\* the status Unredeemed.
C4_ZeroPriceSucceeds ==
    \A t \in Threads :
        (PastPersist(t) /\ req[t].pc = "done" /\ req[t].price = 0)
        => LET fresh == RepoGet(backend, store, req[t].vid)
           IN  /\ req[t].outcome = "ok"
               /\ fresh.status = "Unredeemed"
               /\ fresh.liters_requested = 0
               /\ fresh.total_dispensed_php = req[t].row.requested_amount_php

\* C4 as amended: an Approve whose resolved price is 0 stores
\* liters_requested = 0 and total_dispensed = amount, never reaches the flip,
\* and ends in ComputationError with status and redemption_timestamp as read.
C4_ZeroPriceFails ==
    \A t \in Threads :
        (PastPersist(t) /\ req[t].price = 0)
        => LET fresh == RepoGet(backend, store, req[t].vid)
           IN  /\ fresh.liters_requested = 0
               /\ fresh.total_dispensed_php =
                      FloatOr0(backend, req[t].row.requested_amount_php)
               /\ fresh.status = req[t].row.status
               /\ fresh.redemption_timestamp = req[t].row.redemption_timestamp
               /\ req[t].pc # "approve_flip"
               /\ req[t].pc = "done" => req[t].outcome = "ComputationError"

C4_Witness ==
    \E t \in Threads :
        /\ PastPersist(t) /\ req[t].pc = "done" /\ req[t].price = 0
        /\ req[t].outcome = "ComputationError"
        /\ req[t].row.requested_amount_php = 100000
        /\ RepoGet(backend, store, req[t].vid).total_dispensed_php = 100000

\* the status cell as it is stored
StoredStatus(row) == IF row.status \in {"nan", "None"} THEN "" ELSE row.status

\* C5: a Redeem of an existing voucher succeeds exactly when the stored
\* status passes the policy (lenient: empty, Unverified or Unredeemed; strict:
\* Unredeemed); a success stores Redeemed with the time of the request, a
\* rejection leaves the voucher as it was read.
C5_RedeemPolicy ==
    \A t \in Threads :
        (Redeeming(t) /\ req[t].pc = "done" /\ req[t].row # NoRow)
        => LET st == StoredStatus(req[t].row)
               passes == IF enforce THEN st = "Unredeemed"
                         ELSE st \in {"", "Unverified", "Unredeemed"}
               fresh == RepoGet(backend, store, req[t].vid)
           IN  /\ req[t].outcome = "ok" <=> passes
               /\ req[t].outcome # "ok" => req[t].outcome = "InvalidTransition"
               /\ req[t].outcome = "ok"
                    => fresh.status = "Redeemed" /\ fresh.redemption_timestamp = clock
               /\ req[t].outcome # "ok" => fresh = req[t].row

\* position of a status in Unverified -> Unredeemed -> Redeemed
Rank(status) ==
    IF status = "Redeemed" THEN 2 ELSE IF status = "Unredeemed" THEN 1 ELSE 0

\* C6 as claimed: no step moves the status of a stored voucher backward.
C6_ForwardOnly ==
    [][\A i \in DOMAIN store :
          Rank(store'[i].status) >= Rank(store[i].status)]_vars

\* C6 as amended: a step that moves the status of a stored voucher backward
\* is the successful end of an operator status request for that voucher,
\* which stores the requested status; Redeem, booking and import never do.
C6_BackwardOnlyByOverride ==
    [][\A i \in DOMAIN store :
          Rank(store'[i].status) < Rank(store[i].status)
          => \E t \in Threads :
                /\ req[t].op = "ops" /\ req[t].vid = store[i].voucher_id
                /\ req'[t].pc = "done" /\ req'[t].outcome = "ok"
                /\ store'[i].status = req[t].target]_vars

C6_Witness ==
    \E t \in Threads :
        /\ req[t].op = "ops" /\ req[t].pc = "done" /\ req[t].outcome = "ok"
        /\ Rank(req[t].target) < Rank(req[t].prev)
        /\ \A i \in Matches(store, req[t].vid) : store[i].status = req[t].target

\* C7: the step that ends a Redeem, an Approve or an override of an existing
\* voucher appends exactly one audit row with the voucher id, the previous
\* and the requested status; no other step of the request touches the log.
C7_OneAuditRowPerAttempt ==
    [][\A t \in Threads :
          (req'[t] # req[t] /\ req'[t].op \in {"redeem", "ops"})
          => IF req'[t].pc = "done"
                /\ req'[t].outcome \notin {"NotFound", "Forbidden", "InvalidStatus"}
             THEN /\ Len(audit') = Len(audit) + 1
                  /\ SubSeq(audit', 1, Len(audit)) = audit
                  /\ audit'[Len(audit')].voucher_id = req'[t].vid
                  /\ audit'[Len(audit')].from_status = req'[t].prev
                  /\ audit'[Len(audit')].to_status = req'[t].target
             ELSE audit' = audit]_vars

\* C8: a stored redemption_timestamp is non-empty only on a Redeemed voucher;
\* a successful status change to Redeemed stores the time supplied, one to
\* any other status leaves the timestamp empty.
C8_TimestampOnlyWhenRedeemed ==
    /\ \A i \in DOMAIN store :
          store[i].redemption_timestamp # BLANK => store[i].status = "Redeemed"
    /\ \A t \in Threads :
          (req[t].pc = "done" /\ req[t].outcome = "ok" /\ req[t].op \in {"redeem", "ops"})
          => \A i \in Matches(store, req[t].vid) :
                /\ store[i].status = req[t].target
                /\ store[i].redemption_timestamp =
                      IF req[t].target = "Redeemed" THEN clock ELSE BLANK

\* C9: no two stored rows have the same voucher_id.
C9_UniqueVoucherIds ==
    \A i, j \in DOMAIN store :
        i # j => store[i].voucher_id # store[j].voucher_id

\* C10: after every sequence of the same calls on a CSVRepo and a DBRepo
\* created on the same contents, the last call gave the same value and the
\* same error on both and both hold the same records.
C10_BackendParity ==
    /\ last.csv = last.db
    /\ store = mirror

\* C11: a set_status for a voucher id that is not in the store raises the
\* not-found error and leaves the store as it was, on CSVRepo and on DBRepo.
C11_SetStatusUnknownIsNotFound ==
    [][\A v \in VoucherIds, n \in {"Unverified", "Unredeemed", "Redeemed"} :
          ParitySetStatus(v, n)
          => /\ Matches(store, v) = {}
                  => last'.csv.err = "KeyError" /\ store' = store
             /\ Matches(mirror, v) = {}
                  => last'.db.err = "KeyError" /\ mirror' = mirror]_vars

\* sequences of k distinct positions of a table of n rows
Picks(n, k) ==
    {p \in [1..k -> 1..n] : \A a, b \in 1..k : a # b => p[a] # p[b]}

\* row a of a table has a more recent date than row b: a parsable date
\* against none, or the later of two dates
MoreRecent(rows, a, b) ==
    /\ rows[a].transaction_date # BLANK
    /\ \/ rows[b].transaction_date = BLANK
       \/ rows[a].transaction_date > rows[b].transaction_date

\* val lists the rows of a table as claimed: at most limit of them, none
\* listed after or left out for a less recent one, and the last limit rows
\* in reverse when the rows were created at strictly increasing times
ListedRecent(rows, val, limit) ==
    /\ Len(val) = IF limit < Len(rows) THEN limit ELSE Len(rows)
    /\ \E p \in Picks(Len(rows), Len(val)) :
          /\ \A k \in DOMAIN val : val[k] = rows[p[k]]
          /\ \A k, m \in DOMAIN val : k < m => ~MoreRecent(rows, p[m], p[k])
          /\ \A i \in DOMAIN rows :
                (\A k \in DOMAIN val : p[k] # i)
                => \A k \in DOMAIN val : ~MoreRecent(rows, i, p[k])
    /\ (\A i \in DOMAIN rows :
            /\ rows[i].created_at # BLANK
            /\ \A j \in DOMAIN rows : i < j => rows[i].created_at < rows[j].created_at)
       => \A k \in DOMAIN val : val[k] = rows[Len(rows) + 1 - k]

\* C12: list_recent_vouchers(limit) returns, on CSVRepo and on DBRepo, at
\* most limit vouchers, the most recent date first, the vouchers without a
\* parsable date last, and for vouchers created at T1 < T2 < T3 the latest
\* ones, latest first.
C12_ListRecentOrder ==
    [][\A l \in 1..MaxLimit :
          ParityListRecent(l)
          => /\ last'.csv.err = ""
             /\ ListedRecent(CsvRead(store), last'.csv.val, l)
             /\ last'.db.err = ""
             /\ ListedRecent(DbListAll(mirror), last'.db.val, l)]_vars

UpdatedFields(rows, rows2, err, vid, fields) ==
    IF Matches(rows, vid) = {}
    THEN err = "KeyError" /\ rows2 = rows
    ELSE /\ err = ""
         /\ Len(rows2) = Len(rows)
         /\ \A i \in DOMAIN rows :
               IF rows[i].voucher_id # vid THEN rows2[i] = rows[i]
               ELSE \A c \in VOUCHER_COLUMNS :
                       rows2[i][c] = IF c \in DOMAIN fields THEN fields[c]
                                     ELSE rows[i][c]

\* C14: update_voucher_fields exists on CSVRepo and on DBRepo; on a known
\* voucher it stores the fields of the field map and nothing else, on an
\* unknown voucher it raises the not-found error and changes nothing.
C14_UpdateFieldsFrame ==
    [][\A v \in VoucherIds, f \in UpdateFieldMaps :
          ParityUpdateFields(v, f)
          => /\ UpdatedFields(store, store', last'.csv.err, v, f)
             /\ UpdatedFields(mirror, mirror', last'.db.err, v, f)]_vars

\* C15: set_price raises the invalid-value error for a price <= 0 or > 200
\* and the not-found error for an unknown id, leaving the registry as it
\* was; otherwise the one entry with the id gets the price rounded to 2
\* decimals and updated_at = now, and every other entry stays as it was.
C15_SetPriceValidates ==
    [][\A i \in StationIds, p \in NewPrices :
          RegSetPrice(i, p)
          => IF p <= 0 \/ p > 200000
             THEN ret'.err = "ValueError" /\ stations' = stations
             ELSE IF \A k \in DOMAIN stations : stations[k].id # i
             THEN ret'.err = "KeyError" /\ stations' = stations
             ELSE /\ ret'.err = ""
                  /\ Len(stations') = Len(stations)
                  /\ \E k \in DOMAIN stations :
                        /\ stations[k].id = i
                        /\ stations'[k] = [stations[k] EXCEPT
                                              !.price = RoundDiv(p, 10),
                                              !.updated_at = clock]
                        /\ ret'.val = stations'[k]
                        /\ \A j \in DOMAIN stations :
                              j # k => stations'[j] = stations[j]]_vars

\* a price of 61.234 was stored as 61.23 for p1 next to another station
C15_Witness ==
    /\ ret.op = "set_price" /\ ret.err = ""
    /\ ret.arg.station_id = "p1" /\ ret.arg.new_price = 61234
    /\ GetStation(stations, "p1").price = 6123
    /\ GetStation(stations, "p1").updated_at = clock
    /\ GetStation(stations, "p2") # NoRow

\* C16: after a set_price of a known id with 0 < p <= 200, get_station
\* returns the price rounded to 2 decimals and an updated_at strictly
\* greater than the one before the call.
C16_SetPriceRoundTrip ==
    [][\A i \in StationIds, p \in NewPrices :
          (RegSetPrice(i, p) /\ p > 0 /\ p <= 200000
             /\ GetStation(stations, i) # NoRow)
          => /\ GetStation(stations', i).price = RoundDiv(p, 10)
             /\ GetStation(stations', i).updated_at
                    > GetStation(stations, i).updated_at]_vars

\* C17: every entry of the price registry has 0 < price <= 200.
C17_PriceInRange ==
    \A k \in DOMAIN stations :
        stations[k].price > 0 /\ stations[k].price <= 20000

\* the step is a set(n, None) that follows a successful set of a value for
\* the same station
ClearAfterSet(n) ==
    /\ RegDiscountSet(n, BLANK)
    /\ ret.op = "set" /\ ret.err = ""
    /\ ret.arg.discount_per_liter >= 0
    /\ NormalizeStation(ret.arg.station) = NormalizeStation(n)

\* C19 as claimed: a set of a value followed by a set of None leaves two
\* audit rows, the first with new = the value handed over, the second with
\* old = that value and new = absent, and no discount for the station.
C19_SetThenClearRawValue ==
    [][\A n \in DiscountStations :
          ClearAfterSet(n)
          => LET first == history[Len(history)]
                 second == history'[Len(history')]
             IN  /\ Len(history') = Len(history) + 1
                 /\ first.new_discount_per_liter * 10 = ret.arg.discount_per_liter
                 /\ second.old_discount_per_liter * 10 = ret.arg.discount_per_liter
                 /\ second.new_discount_per_liter = BLANK
                 /\ DiscountGet(discounts', n) = BLANK]_vars

\* C19 as amended: a set of a value appends one audit row with new = the
\* value rounded to 4 decimals; a set of None that follows it appends one
\* row with old = that rounded value and new = absent and leaves no discount
\* for the station.
C19_SetThenClear ==
    [][\A n \in DiscountStations :
          /\ \A v \in NewDiscounts :
                (RegDiscountSet(n, v) /\ v >= 0)
                => /\ history' = Append(history,
                          HistoryRow(clock, NormalizeStation(n),
                                     DiscountGet(discounts, n), RoundDiv(v, 10)))
                   /\ DiscountGet(discounts', n) = RoundDiv(v, 10)
          /\ ClearAfterSet(n)
                => /\ history[Len(history)].station = NormalizeStation(n)
                   /\ history[Len(history)].new_discount_per_liter
                          = RoundDiv(ret.arg.discount_per_liter, 10)
                   /\ history' = Append(history,
                          HistoryRow(clock, NormalizeStation(n),
                                     RoundDiv(ret.arg.discount_per_liter, 10), BLANK))
                   /\ DiscountGet(discounts', n) = BLANK]_vars

\* a discount of 2.50004 was set for X, stored as 2.5, and cleared again
C19_Witness ==
    /\ ret.op = "set" /\ ret.err = "" /\ ret.arg.discount_per_liter = BLANK
    /\ Len(history) = Len(InitHistory) + 2
    /\ history[Len(history) - 1] =
           [history[Len(history) - 1] EXCEPT
               !.station = "X", !.old_discount_per_liter = BLANK,
               !.new_discount_per_liter = 25000]
    /\ history[Len(history)] =
           [history[Len(history)] EXCEPT
               !.station = "X", !.old_discount_per_liter = 25000,
               !.new_discount_per_liter = BLANK]
    /\ DiscountGet(discounts, "X") = BLANK

\* the rows from row k on lead from the dict data to the dict final, each
\* with the value before it as old and the value after it as new, none
\* removing an absent entry
RECURSIVE Replays(_, _, _, _)
Replays(data, rows, k, final) ==
    IF k > Len(rows) THEN data = final
    ELSE LET r == rows[k]
         IN  /\ r.old_discount_per_liter = DiscountGet(data, r.station)
             /\ ~(r.old_discount_per_liter = BLANK /\ r.new_discount_per_liter = BLANK)
             /\ Replays(IF r.new_discount_per_liter = BLANK
                        THEN DictDel(data, r.station)
                        ELSE DictSet(data, r.station, r.new_discount_per_liter),
                        rows, k + 1, final)

\* C20: a step of the discount registry keeps the audit rows it found and
\* appends one row per mutation, with the value before as old and the value
\* stored as new: one for a set of a value, one for the removal of a present
\* entry, one per change of a set_many, one per entry removed by clear_all,
\* none for the removal of an absent entry or a clear_all of nothing.
C20_OneAuditRowPerMutation ==
    [][LET added == SubSeq(history', Len(history) + 1, Len(history'))
       IN  /\ Len(history') >= Len(history)
           /\ SubSeq(history', 1, Len(history)) = history
           /\ Replays(discounts, added, 1, discounts')
           /\ \A n \in DiscountStations, v \in NewDiscounts :
                 RegDiscountSet(n, v)
                 => Len(added) = IF (v # BLANK /\ ValidateAndRound(v).err = "")
                                    \/ (v = BLANK /\ DiscountGet(discounts, n) # BLANK)
                                 THEN 1 ELSE 0
           /\ \A u \in UpdateBatches :
                 RegDiscountSetMany(u)
                 => IF \E k \in DOMAIN u :
                           u[k][2] # BLANK /\ ValidateAndRound(u[k][2]).err # ""
                    THEN added = <<>>
                    ELSE /\ Cardinality({k \in DOMAIN added :
                                added[k].new_discount_per_liter # BLANK})
                              = Cardinality({k \in DOMAIN u : u[k][2] # BLANK})
                         /\ Cardinality({k \in DOMAIN added :
                                added[k].new_discount_per_liter = BLANK})
                              <= Cardinality({k \in DOMAIN u : u[k][2] = BLANK})
           /\ RegDiscountClearAll
                 => /\ Len(added) = Cardinality(DOMAIN discounts)
                    /\ \A k \in DOMAIN discounts :
                          \E i \in DOMAIN added :
                              added[i] = HistoryRow(clock, k, discounts[k], BLANK)]_vars

\* a set_many has set and then removed the discount of S1: two rows
C20_Witness ==
    /\ ret.op = "set_many" /\ ret.err = ""
    /\ Len(history) >= 3
    /\ history[Len(history) - 1].station = "S1"
    /\ history[Len(history) - 1].new_discount_per_liter = 17500
    /\ history[Len(history)].station = "S1"
    /\ history[Len(history)].old_discount_per_liter = 17500
    /\ history[Len(history)].new_discount_per_liter = BLANK
    /\ DiscountGet(discounts, "S1") = BLANK

\* C18: at every point of every mutation, and so after a crash at any
\* point, each registry file holds a complete document.
C18_RegistryFilesComplete ==
    \A f \in DOMAIN docs : docs[f] # "torn"

\* C21: a set with a negative or non-numeric value fails with
\* DiscountValueError and leaves the mapping and the audit rows as they
\* were; a set with a value >= 0 stores it rounded to 4 decimals under the
\* trimmed station name.
C21_SetRejectsInvalid ==
    [][\A n \in DiscountStations, v \in NewDiscounts :
          RegDiscountSet(n, v)
          => /\ (v \in {TEXT, NAN} \/ (v # BLANK /\ v < 0))
                => /\ ret'.err = "DiscountValueError"
                   /\ discounts' = discounts
                   /\ history' = history
             /\ v >= 0
                => /\ ret'.err = ""
                   /\ NormalizeStation(n) \in DOMAIN discounts'
                   /\ discounts'[NormalizeStation(n)] = RoundDiv(v, 10)
                   /\ \A k \in DOMAIN discounts' \ {NormalizeStation(n)} :
                         k \in DOMAIN discounts /\ discounts'[k] = discounts[k]]_vars

\* the value the last update of a batch for a station asks for (BLANK: removal
\* or no update for the station)
LastUpdate(u, key) ==
    LET ks == {k \in DOMAIN u : NormalizeStation(u[k][1]) = key}
    IN  IF ks = {} THEN BLANK
        ELSE u[CHOOSE k \in ks : \A j \in ks : j <= k][2]

\* a thread inside "with self._lock"
InLock(t) ==
    call[t].op \in DiscountOps /\ call[t].pc \in {"load", "modify", "append", "release"}

RowsOf(key, n) == {i \in 1..n : history[i].station = key}

\* the value the audit rows up to row n leave for a station
Audited(key, n) ==
    IF RowsOf(key, n) = {} THEN BLANK
    ELSE history[CHOOSE i \in RowsOf(key, n) :
                    \A j \in RowsOf(key, n) : j <= i].new_discount_per_liter

\* C23: concurrent set / set_many / clear_all / get calls of one
\* DiscountStore take effect one after the other: at most one thread is
\* between the lock and its release; a thread that has loaded the mapping
\* finds it unchanged when it stores its change; every audit row's old value
\* is the new value of the station's previous row (absent if there is none);
\* and whenever no call is between its save and its audit rows, the mapping
\* is what the audit rows say, so that no update is lost.
C23_DiscountCallsSerialized ==
    /\ \A t, o \in Threads : (InLock(t) /\ InLock(o)) => t = o
    /\ \A t \in Threads : InLock(t) => lock = t
    /\ \A t \in Threads :
          (call[t].op \in DiscountOps /\ call[t].pc = "modify")
          => call[t].data = discounts
    /\ \A i \in DOMAIN history :
          history[i].old_discount_per_liter = Audited(history[i].station, i - 1)
    /\ (\A t \in Threads : call[t].pc # "append")
          => \A key \in DOMAIN discounts \cup {history[i].station : i \in DOMAIN history} :
                DiscountGet(discounts, key) = Audited(key, Len(history))

\* a set_many has stored its batch and holds the lock while a clear_all of
\* the other thread waits for it
C23_Witness ==
    \E t, o \in Threads :
        /\ call[t].op = "set_many" /\ call[t].pc = "append" /\ lock = t
        /\ call[o].op = "clear_all" /\ call[o].pc = "acquire"

\* a thread has returned from a call without an error
Returned(t, op) == call[t].pc = "done" /\ call[t].op = op /\ call[t].err = ""

\* C24: when two threads have set the prices of two different stations and
\* both calls have returned, the registry holds both new prices.
C24_NoLostPriceUpdate ==
    \A t, o \in Threads :
        (/\ Returned(t, "set_price") /\ Returned(o, "set_price")
         /\ call[t].arg.station_id # call[o].arg.station_id)
        => \A u \in {t, o} :
              GetStation(stations, call[u].arg.station_id).price
                  = RoundDiv(call[u].arg.new_price, 10)

\* C25: when one thread has set the status of voucher A, another has created
\* voucher B and both calls have returned, the store holds B and A has its
\* new status.
C25_NoLostVoucherUpdate ==
    \A t, o \in Threads :
        (Returned(t, "set_status") /\ Returned(o, "create_unverified_booking"))
        => /\ CsvGetVoucher(store, call[o].arg.voucher_id) # NoRow
           /\ CsvGetVoucher(store, call[t].arg.voucher_id) # NoRow
           /\ CsvGetVoucher(store, call[t].arg.voucher_id).status = call[t].arg.new_status

\* C27: an Approve that resolves amount > 0 and price > 0 stores
\* liters_requested = round(amount / price, 2), discount_total =
\* round(liters_requested * discount, 2), total_dispensed = amount +
\* discount_total and liters_dispensed = round(liters_requested +
\* discount_total / price, 2); for 1000, 60.0 and 2.5 these are 16.67, 41.68,
\* 1041.68 and 17.36.
C27_ApproveArithmetic ==
    [][\A t \in Threads :
          (ApprovePersist(t) /\ req'[t].pc = "approve_assets")
          => LET amount == FloatOr0(backend, req[t].row.requested_amount_php)
                 price == ResolvePrice(backend, req[t].row, stations)
                 dpl == ResolveDiscount(backend, req[t].row, discounts)
                 r == RepoGet(backend, store', req[t].vid)
                 liters == RoundDiv(amount * 100, price)
                 total == RoundDiv(liters * dpl, 10000)
             IN  (Pos(amount) /\ Pos(price))
                 => /\ r.liters_requested = liters
                    /\ r.discount_total_php = total
                    /\ r.total_dispensed_php = amount + total
                    /\ r.liters_dispensed = RoundDiv(liters * price + 100 * total, price)
                    /\ (amount = 100000 /\ price = 6000 /\ dpl = 25000)
                       => /\ r.liters_requested = 1667
                          /\ r.discount_total_php = 4168
                          /\ r.total_dispensed_php = 104168
                          /\ r.liters_dispensed = 1736]_vars

\* a voucher of 1000 pesos booked at 60.0 with a discount of 2.5 is approved
C27_Witness ==
    \E i \in DOMAIN store :
        /\ store[i].requested_amount_php = 100000
        /\ store[i].live_price_php_per_liter = 6000
        /\ store[i].discount_per_liter = 25000
        /\ store[i].liters_requested = 1667
        /\ store[i].discount_total_php = 4168
        /\ store[i].total_dispensed_php = 104168
        /\ store[i].liters_dispensed = 1736
        /\ store[i].status = "Unredeemed"

\* C28: Approve uses the price snapshot when it is > 0, else the live price of
\* the station of that name, else 0; and the discount snapshot when it is
\* non-zero, else the live discount, else 0.
C28_ApproveUsesSnapshotElseLive ==
    [][\A t \in Threads :
          (ApprovePersist(t) /\ req'[t].pc = "approve_assets")
          => LET row == req[t].row
                 snap_price == row.price_snapshot_php_per_liter
                 snap_disc == row.discount_snapshot_php_per_liter
                 live == DiscountGet(discounts, row.station)
                 r == RepoGet(backend, store', req[t].vid)
             IN  /\ r.live_price_php_per_liter =
                       IF Pos(snap_price) THEN snap_price
                       ELSE LivePriceByName(stations, row.station)
                 /\ r.discount_per_liter =
                       IF snap_disc \notin {0, BLANK} THEN snap_disc
                       ELSE IF live # BLANK THEN live ELSE 0]_vars

\* the price of the station matched by id or else by name, 0 without a match
StationPriceByIdOrName(station_name) ==
    LET first(S) == CHOOSE i \in S : \A j \in S : i <= j
        by_id == {i \in DOMAIN stations : Lower(stations[i].id) = Lower(station_name)}
        by_name == {i \in DOMAIN stations : Lower(stations[i].name) = Lower(station_name)}
    IN  IF by_id # {} THEN stations[first(by_id)].price
        ELSE IF by_name # {} THEN stations[first(by_name)].price
        ELSE 0

\* C30: Book adds exactly one voucher, Unverified, whose price snapshot is the
\* price of the station matched by id or else by name (0 without a match) and
\* whose discount snapshot is the live discount of the station (0 without
\* one), and changes neither a stored voucher nor a registry entry.
C30_BookCreatesOneVoucher ==
    [][\A t \in Threads, s \in BookStations, a \in Amounts, g \in NewIds :
          Book(t, s, a, g)
          => /\ Len(store') = Len(store) + 1
             /\ SubSeq(store', 1, Len(store)) = store
             /\ LET r == store'[Len(store')]
                    live == DiscountGet(discounts, s)
                IN  /\ r.status = "Unverified"
                    /\ r.station = s
                    /\ r.price_snapshot_php_per_liter = StationPriceByIdOrName(s)
                    /\ r.discount_snapshot_php_per_liter =
                          IF live # BLANK THEN live ELSE 0
             /\ stations' = stations
             /\ discounts' = discounts]_vars

\* the computed totals of the stored rows of a voucher
Totals(rows, vid) ==
    [i \in Matches(rows, vid) |->
        <<rows[i].liters_requested, rows[i].discount_total_php,
          rows[i].total_dispensed_php, rows[i].liters_dispensed>>]

\* the voucher has been approved before: computed and flipped to Unredeemed
ApprovedBefore(vid) ==
    \E i \in Matches(store, vid) :
        store[i].status = "Unredeemed" /\ store[i].computed_at # BLANK

\* C26: an Approve of a voucher that was approved before leaves its
\* liters_requested, discount_total, total_dispensed and liters_dispensed as
\* the first Approve stored them and makes no artifact that exists already;
\* the asset generator never writes to the voucher record.
C26_ApproveIdempotent ==
    [][\A t \in Threads :
          /\ (ApprovePersist(t) /\ ApprovedBefore(req[t].vid))
             => Totals(store', req[t].vid) = Totals(store, req[t].vid)
          /\ ApproveAssets(t)
             => /\ store' = store
                /\ files \subseteq files'
                /\ ({<<req[t].vid, "qr">>, <<req[t].vid, "png">>} \subseteq files
                    => files' = files)]_vars

\* C29: a stored price snapshot, and a stored discount snapshot, that is
\* non-zero is left as it is by every step of every operation: Approve,
\* Redeem, the operator's status changes, bookings and changes of the price
\* and discount registries.
C29_SnapshotsFrozen ==
    [][\A i \in DOMAIN store :
          /\ i \in DOMAIN store'
          /\ store[i].price_snapshot_php_per_liter \notin {0, BLANK}
             => store'[i].price_snapshot_php_per_liter =
                    store[i].price_snapshot_php_per_liter
          /\ store[i].discount_snapshot_php_per_liter \notin {0, BLANK}
             => store'[i].discount_snapshot_php_per_liter =
                    store[i].discount_snapshot_php_per_liter]_vars

\* a voucher approved after the price of its station changed
\* still carries the snapshots of its booking
C29_Witness ==
    \E i \in DOMAIN store :
        /\ store[i].status = "Unredeemed"
        /\ store[i].computed_at = clock
        /\ store[i].price_snapshot_php_per_liter = 6000
        /\ store[i].discount_snapshot_php_per_liter = 25000
        /\ \E k \in DOMAIN stations :
              /\ stations[k].name = store[i].station
              /\ stations[k].price # 6000
              /\ stations[k].updated_at < store[i].computed_at
        /\ \E t \in Threads : req[t].pc = "done" /\ req[t].outcome = "ok"
                              /\ req[t].vid = store[i].voucher_id

\* C31: every voucher in the store has a requested amount greater than zero.
C31_AmountsPositive ==
    \A i \in DOMAIN store : Pos(store[i].requested_amount_php)

\* C32: no step of any operation removes a voucher: every voucher_id in the
\* store before the step is in the store after it.
C32_NeverDeleted ==
    [][\A v \in VoucherIds :
          Matches(store, v) # {} => Matches(store', v) # {}]_vars

\* voucher A is still stored after a second voucher came in and a request ran
C32_Witness ==
    /\ Matches(store, "A") # {}
    /\ Matches(store, "B") # {}
    /\ nreq = MaxRequests

\* the redeem_success rows of the audit log for a voucher
RedeemSuccesses(vid) ==
    {k \in DOMAIN audit : audit[k].action = "redeem_success"
                          /\ audit[k].voucher_id = vid}

\* C33: of two Redeem requests for one voucher that run at the same time at
\* most one succeeds: they never both report success, and the audit log never
\* gets a second redeem_success row for the voucher from them.
C33_OneRedeemWins ==
    /\ ~(\A t \in Threads : /\ req[t].op = "redeem" /\ req[t].vid = "A"
                            /\ req[t].pc = "done" /\ req[t].outcome = "ok")
    /\ Cardinality(RedeemSuccesses("A")) <= 1

\* C34: an Approve that read the voucher before a Redeem of it succeeded does
\* not afterwards take the voucher back to Unredeemed or clear its
\* redemption_timestamp.
C34_RedeemNotLost ==
    [][\A t \in Threads :
          (/\ ApproveFlip(t)
           /\ req[t].row.status # "Redeemed"
           /\ RedeemSuccesses(req[t].vid) # {}
           /\ \A i \in Matches(store, req[t].vid) : store[i].status = "Redeemed")
          => \A i \in Matches(store, req[t].vid) :
                /\ store'[i].status = "Redeemed"
                /\ store'[i].redemption_timestamp = store[i].redemption_timestamp]_vars

\* C35: while a voucher stays Redeemed no step changes its
\* redemption_timestamp.
C35_RedeemedTimestampFrozen ==
    [][\A i \in DOMAIN store :
          (/\ i \in DOMAIN store'
           /\ store[i].status = "Redeemed"
           /\ store'[i].status = "Redeemed")
          => store'[i].redemption_timestamp = store[i].redemption_timestamp]_vars

\* C36: when an Approve sets a voucher to Unredeemed, the QR image and the
\* branded certificate of that voucher both exist.
C36_BothArtifactsAtFlip ==
    [][\A t \in Threads :
          (ApproveFlip(t) /\ req'[t].outcome = "ok")
          => {<<req[t].vid, "qr">>, <<req[t].vid, "png">>} \subseteq files]_vars

\* C37: an Approve that fails with a computation error or an asset
\* generation error has written at most the computed and snapshot fields of
\* its voucher: its steps before the flip change no status, no
\* redemption_timestamp and no row of another voucher, and when it fails the
\* voucher still has the status and redemption_timestamp the Approve read.
C37_FailedApproveFrame ==
    [][\A t \in Threads :
          /\ ApprovePersist(t)
             => /\ StatusColumns(store') = StatusColumns(store)
                /\ \A i \in DOMAIN store :
                      store[i].voucher_id # req[t].vid => store'[i] = store[i]
          /\ (ApproveAssets(t) /\ req'[t].pc = "done")
             => /\ store' = store
                /\ req'[t].outcome \in {"ComputationError", "AssetGenerationError"}
                /\ LET r == RepoGet(backend, store', req[t].vid)
                   IN  /\ r.status = req[t].row.status
                       /\ r.redemption_timestamp = req[t].row.redemption_timestamp]_vars

\* an Approve has failed after it stored the computed fields of its voucher
C37_Witness ==
    \E t \in Threads :
        /\ Approving(t) /\ req[t].pc = "done"
        /\ req[t].outcome \in {"ComputationError", "AssetGenerationError"}
        /\ \E i \in Matches(store, req[t].vid) :
              store[i].computed_at # BLANK /\ store[i].status = "Unverified"

\* C38: a booking that answers with its success page has persisted a new
\* Unverified voucher with the submitted station and amount.
C38_BookSuccessMeansStored ==
    [][\A t \in Threads, s \in BookStations, a \in Amounts, g \in NewIds :
          (Book(t, s, a, g) /\ req'[t].outcome = "ok")
          => \E i \in DOMAIN store' \ DOMAIN store :
                /\ store'[i].station = s
                /\ store'[i].requested_amount_php = a
                /\ store'[i].status = "Unverified"]_vars

\* C39: every voucher whose status is Unredeemed has a computed_at and stored
\* computed totals.
C39_UnredeemedIsComputed ==
    \A i \in DOMAIN store :
        store[i].status = "Unredeemed"
        => /\ store[i].computed_at # BLANK
           /\ store[i].liters_requested # BLANK
           /\ store[i].discount_total_php # BLANK
           /\ store[i].total_dispensed_php # BLANK
           /\ store[i].liters_dispensed # BLANK

====
